---- MODULE Spec2Model ----
(***************************************************************************)
(* pyssi: a Server-Side-Includes interpreter (src/pyssi/__init__.py).      *)
(*                                                                         *)
(* A document is a sequence of one-character strings.  Parser.parse runs   *)
(* the generator Parser.lexemize lazily under Parser.build_ast, which      *)
(* builds a tree of nodes; Node.evaluate walks the tree against one        *)
(* mutable context.  Positions are 1-based here (Python's pos + 1).        *)
(***************************************************************************)
EXTENDS Naturals, Sequences, FiniteSets, TLC

VARIABLES
    text,       \* the document handed to Parser.parse
    phase,      \* "parse" | "parsed" | "eval" | "done" | "raised"
    pos,        \* lexemize: pos
    half,       \* lexemize: "start" | "end" (which try block runs next) | "break"
    emitted,    \* the tokens lexemize has yielded so far, in order
    nodes,      \* the node objects built so far; nodes[1] is build_ast's head
    scope,      \* build_ast: the roots of the active calls of inner, innermost last
    context,    \* the context dict: a set of <<key, value>> pairs, keys unique
    stack,      \* the active calls of evaluate_tokens, innermost last
    output,     \* what root.evaluate returned
    error,      \* the exception that left parse or evaluate, "" if none
    log         \* history: one record per node evaluation, fetch and invocation

vars == <<text, phase, pos, half, emitted, nodes, scope, context, stack, output, error, log>>

(***************************************************************************)
(* Characters and strings                                                  *)
(***************************************************************************)
Min(S) == CHOOSE m \in S : \A k \in S : m <= k

\* str.upper on the letters (every other character is its own upper case)
UpperMap ==
    [a |-> "A", b |-> "B", c |-> "C", d |-> "D", e |-> "E", f |-> "F", g |-> "G",
     h |-> "H", i |-> "I", j |-> "J", k |-> "K", l |-> "L", m |-> "M", n |-> "N",
     o |-> "O", p |-> "P", q |-> "Q", r |-> "R", s |-> "S", t |-> "T", u |-> "U",
     v |-> "V", w |-> "W", x |-> "X", y |-> "Y", z |-> "Z"]

Lowercase == DOMAIN UpperMap
Digits == {"0", "1", "2", "3", "4", "5", "6", "7", "8", "9"}
HexDigits == Digits \cup {"a", "b", "c", "d", "e", "f", "A", "B", "C", "D", "E", "F"}
Whitespace == {" ", "\t", "\n", "\r"}

Upper(s) == [k \in 1..Len(s) |-> IF s[k] \in Lowercase THEN UpperMap[s[k]] ELSE s[k]]

\* text.index(sub, pos): the first place at or after pos where sub starts, 0 for ValueError
Index(t, sub, from) ==
    LET at == {k \in from..(Len(t) - Len(sub) + 1) :
                  t[k] = sub[1] /\ SubSeq(t, k, k + Len(sub) - 1) = sub}
    IN IF at = {} THEN 0 ELSE Min(at)

\* the first place at or after from whose character is not in chars, Len(t) + 1 if none
SkipChars(t, from, chars) ==
    LET stops == {k \in from..Len(t) : t[k] \notin chars}
    IN IF stops = {} THEN Len(t) + 1 ELSE Min(stops)

\* str.strip()
Strip(t) ==
    LET keep == {k \in 1..Len(t) : t[k] \notin Whitespace}
    IN IF keep = {} THEN <<>>
       ELSE SubSeq(t, Min(keep), CHOOSE m \in keep : \A k \in keep : k <= m)

(***************************************************************************)
(* Values.  A value of the context, an attribute value or a fragment is    *)
(*   [t |-> "str", s |-> characters]   a string                            *)
(*   [t |-> "block", n |-> node]       the lambda Block.evaluate installs  *)
(*   [t |-> "none"]                    None                                *)
(*   [t |-> "dict"]                    the {} default of match.groupdict   *)
(* A dict is a set of <<key, value>> pairs with unique keys.               *)
(***************************************************************************)
Str(s) == [t |-> "str", s |-> s, n |-> 0]
BlockValue(n) == [t |-> "block", s |-> <<>>, n |-> n]
None == [t |-> "none", s |-> <<>>, n |-> 0]
EmptyDict == [t |-> "dict", s |-> <<>>, n |-> 0]

Keys(d) == {p[1] : p \in d}
Get(d, k) == (CHOOSE p \in d : p[1] = k)[2]
\* d[k] = v
Put(d, k, v) == {p \in d : p[1] # k} \cup {<<k, v>>}
\* d.update(e)
Update(d, e) == {p \in d : p[1] \notin Keys(e)} \cup e

(***************************************************************************)
(* AttributeParser                                                         *)
(***************************************************************************)
NameChars == Lowercase \cup Digits \cup {"$", "_", "-"}

\* dblQuotedString, read from k, the place after the opening quote: the place of the
\* closing quote the
\* regular expression "(?:[^"\n\r\\]|(?:"")|(?:\\(?:[^x]|x[0-9a-fA-F]+)))*" ends on
\* (greedy, so a doubled quote continues the string when the rest still closes), 0 if none
RECURSIVE DblQuotedEnd(_, _)
DblQuotedEnd(t, k) ==
    IF k > Len(t) THEN 0
    ELSE IF t[k] = "\"" THEN
             IF k + 1 <= Len(t) /\ t[k + 1] = "\"" /\ DblQuotedEnd(t, k + 2) # 0
             THEN DblQuotedEnd(t, k + 2)
             ELSE k
    ELSE IF t[k] = "\\" THEN
             IF k + 1 > Len(t) THEN 0
             ELSE IF t[k + 1] # "x" THEN DblQuotedEnd(t, k + 2)
             ELSE IF k + 2 <= Len(t) /\ t[k + 2] \in HexDigits
                  THEN DblQuotedEnd(t, SkipChars(t, k + 2, HexDigits))
                  ELSE 0
    ELSE IF t[k] \in {"\n", "\r"} THEN 0
    ELSE DblQuotedEnd(t, k + 1)

\* Group(name + sep + value) at from, leading whitespace skipped before each element:
\* [ok, key, value, next]
AttributeGroup(t, from) ==
    LET n0 == SkipChars(t, from, Whitespace)
        n1 == SkipChars(t, n0, NameChars)
        e0 == SkipChars(t, n1, Whitespace)
        q0 == SkipChars(t, e0 + 1, Whitespace)
        q1 == DblQuotedEnd(t, q0 + 1)
        fail == [ok |-> FALSE, key |-> <<>>, value |-> <<>>, next |-> from]
    IN IF n1 = n0 THEN fail
       ELSE IF e0 > Len(t) \/ t[e0] # "=" THEN fail
       ELSE IF q0 > Len(t) \/ t[q0] # "\"" \/ q1 = 0 THEN fail
       ELSE [ok |-> TRUE, key |-> SubSeq(t, n0, n1 - 1),
             value |-> SubSeq(t, q0 + 1, q1 - 1), next |-> q1 + 1]

\* OneOrMore(Group(...)).parseString(text, parseAll=True), then the dict comprehension
\* (a later duplicate key overwrites): [ok, d]; ok = FALSE is ParseException
RECURSIVE AttributeGroups(_, _, _, _)
AttributeGroups(t, from, count, d) ==
    LET g == AttributeGroup(t, from)
    IN IF g.ok THEN AttributeGroups(t, g.next, count + 1, Put(d, g.key, Str(g.value)))
       ELSE [ok |-> count >= 1 /\ SkipChars(t, from, Whitespace) > Len(t), d |-> d]

AttributeParser_parse(t) == AttributeGroups(t, 1, 0, {})

(***************************************************************************)
(* Parser.tokenize and Parser.lexemize                                     *)
(***************************************************************************)
StartDelimiter == <<"<", "!", "-", "-", "#">>
EndDelimiter == <<"-", "-", ">">>
TEXT == <<"T", "E", "X", "T">>

\* a token (name, attributes); attributes is None, a string (TEXT) or a dict
NoAttributes == [t |-> "none", s |-> <<>>, d |-> {}]
TextAttributes(s) == [t |-> "str", s |-> s, d |-> {}]
DictAttributes(d) == [t |-> "dict", s |-> <<>>, d |-> d]
Token(name, attributes) == [name |-> name, attributes |-> attributes]

\* tokenize(expression): [ok, token]; ok = FALSE is the attribute grammar's ParseException
tokenize(expression) ==
    LET e == Strip(expression)
        w0 == SkipChars(e, 1, {c \in {e[k] : k \in 1..Len(e)} : c \notin Whitespace})
        a0 == SkipChars(e, w0, Whitespace)
        parsed == AttributeParser_parse(SubSeq(e, a0, Len(e)))
    IN IF \A k \in 1..Len(e) : e[k] # " "
       THEN [ok |-> TRUE, token |-> Token(Upper(e), NoAttributes)]
       ELSE [ok |-> parsed.ok,
             token |-> Token(Upper(SubSeq(e, 1, w0 - 1)), DictAttributes(parsed.d))]

\* a lexemize that takes a start delimiter with no end delimiter for the end of the text
RECURSIVE lexemize_to_end(_, _, _)
lexemize_to_end(t, p, h) ==
    LET none == Token(<<>>, NoAttributes)
        res(kind, token, err, p2, h2) ==
            [kind |-> kind, token |-> token, error |-> err, pos |-> p2, half |-> h2,
             at |-> p]
    IN IF h = "break" THEN res("stop", none, "", p, h)
       ELSE IF h = "start" THEN
           LET offset == Index(t, StartDelimiter, p)
           IN IF offset = 0
              THEN IF p <= Len(t)
                   THEN res("yield", Token(TEXT, TextAttributes(SubSeq(t, p, Len(t)))),
                            "", p, "break")
                   ELSE res("stop", none, "", p, "break")
              ELSE IF offset > p
                   THEN res("yield", Token(TEXT, TextAttributes(SubSeq(t, p, offset - 1))),
                            "", offset + Len(StartDelimiter), "end")
                   ELSE lexemize_to_end(t, offset + Len(StartDelimiter), "end")
       ELSE
           LET offset == Index(t, EndDelimiter, p)
               tok == tokenize(SubSeq(t, p, offset - 1))
           IN IF offset = 0 THEN res("stop", none, "", p, "break")
              ELSE IF offset = p THEN lexemize_to_end(t, offset + Len(EndDelimiter), "start")
              ELSE IF ~tok.ok THEN res("raise", none, "ParseException", p, h)
              ELSE res("yield", tok.token, "", offset + Len(EndDelimiter), "start")

\* One resumption of the generator lexemize from (pos, half): it runs to its next
\* yield, to the raise of 'End marker not found' or of tokenize's ParseException, or to
\* its end.  [kind |-> "yield" | "raise" | "stop", token, error, pos, half, at], at the
\* place in the document of the value the token was made from
RECURSIVE lexemize(_, _, _)
lexemize(t, p, h) ==
    LET none == Token(<<>>, NoAttributes)
        res(kind, token, err, p2, h2) ==
            [kind |-> kind, token |-> token, error |-> err, pos |-> p2, half |-> h2,
             at |-> p]
    IN IF h = "break" THEN res("stop", none, "", p, h)
       ELSE IF h = "start" THEN
           LET offset == Index(t, StartDelimiter, p)
           IN IF offset = 0
              THEN IF p <= Len(t)
                   THEN res("yield", Token(TEXT, TextAttributes(SubSeq(t, p, Len(t)))),
                            "", p, "break")
                   ELSE res("stop", none, "", p, "break")
              ELSE IF offset > p
                   THEN res("yield", Token(TEXT, TextAttributes(SubSeq(t, p, offset - 1))),
                            "", offset + Len(StartDelimiter), "end")
                   ELSE lexemize(t, offset + Len(StartDelimiter), "end")
       ELSE
           LET offset == Index(t, EndDelimiter, p)
               tok == tokenize(SubSeq(t, p, offset - 1))
           IN IF offset = 0 THEN res("raise", none, "End marker not found", p, h)
              ELSE IF offset = p THEN lexemize(t, offset + Len(EndDelimiter), "start")
              ELSE IF ~tok.ok THEN res("raise", none, "ParseException", p, h)
              ELSE res("yield", tok.token, "", offset + Len(EndDelimiter), "start")

(***************************************************************************)
(* Node classes, token_factory and Parser.build_ast                        *)
(***************************************************************************)
T_BLOCK == <<"B", "L", "O", "C", "K">>
T_ENDBLOCK == <<"E", "N", "D", "B", "L", "O", "C", "K">>
T_CONFIG == <<"C", "O", "N", "F", "I", "G">>
T_ECHO == <<"E", "C", "H", "O">>
T_IF == <<"I", "F">>
T_ELIF == <<"E", "L", "I", "F">>
T_ELSE == <<"E", "L", "S", "E">>
T_ENDIF == <<"E", "N", "D", "I", "F">>
T_INCLUDE == <<"I", "N", "C", "L", "U", "D", "E">>
T_SET == <<"S", "E", "T">>

\* token_factory's map: the class of a token name, "KeyError" for a name not in it
token_factory(name) ==
    CASE name = TEXT -> "Text"
      [] name = T_BLOCK -> "Block"
      [] name = T_ENDBLOCK -> "Endblock"
      [] name = T_CONFIG -> "Config"
      [] name = T_ECHO -> "Echo"
      [] name = T_IF -> "If"
      [] name = T_ELIF -> "Elif"
      [] name = T_ELSE -> "Else"
      [] name = T_ENDIF -> "Endif"
      [] name = T_INCLUDE -> "Include"
      [] name = T_SET -> "Set"
      [] OTHER -> "KeyError"

\* the class attribute end_tags ({} stands for None)
end_tags(cls) ==
    CASE cls = "Block" -> {T_ENDBLOCK}
      [] cls = "If" -> {T_ELIF, T_ELSE, T_ENDIF}
      [] cls = "Elif" -> {T_ELSE, T_ENDIF}
      [] cls = "Else" -> {T_ENDIF}
      [] OTHER -> {}

\* Node.__init__ / If.__init__; tok is the place of the node's token in emitted
NewNode(cls, attributes, tok) ==
    [cls |-> cls, attributes |-> attributes, children |-> <<>>, else_tokens |-> <<>>,
     tok |-> tok]

\* root.children = node: Node's setter appends to _children; If's (and so Elif's) setter
\* appends an Elif or Else to _else_tokens instead
SetChildren(ns, root, node) ==
    IF ns[root].cls \in {"If", "Elif"} /\ ns[node].cls \in {"Elif", "Else"}
    THEN [ns EXCEPT ![root].else_tokens = Append(@, node)]
    ELSE [ns EXCEPT ![root].children = Append(@, node)]

\* an inner that appends an ELSE that reaches the head as a leaf, opening no scope
inner_stray_leaf(ns, sc, token, tok) ==
    LET root == sc[Len(sc)]
        cls == token_factory(token.name)
        id == Len(ns) + 1
        added == SetChildren(Append(ns, NewNode(cls, token.attributes, tok)), root, id)
    IN IF cls = "KeyError" THEN [error |-> "KeyError", nodes |-> ns, scope |-> sc]
       ELSE IF end_tags(cls) # {} /\ ~(cls = "Else" /\ root = 1)
            THEN [error |-> "", nodes |-> added, scope |-> Append(sc, id)]
       ELSE IF end_tags(ns[root].cls) # {} /\ token.name \in end_tags(ns[root].cls)
            THEN [error |-> "", nodes |-> ns, scope |-> SubSeq(sc, 1, Len(sc) - 1)]
       ELSE [error |-> "", nodes |-> added, scope |-> sc]

\* One pass of the body of inner's for loop on a token, root the innermost open root:
\* the new [nodes, scope], or the KeyError token_factory raises
inner(ns, sc, token, tok) ==
    LET root == sc[Len(sc)]
        cls == token_factory(token.name)
        id == Len(ns) + 1
        added == SetChildren(Append(ns, NewNode(cls, token.attributes, tok)), root, id)
    IN IF cls = "KeyError" THEN [error |-> "KeyError", nodes |-> ns, scope |-> sc]
       ELSE IF end_tags(cls) # {}
            THEN [error |-> "", nodes |-> added, scope |-> Append(sc, id)]
       ELSE IF end_tags(ns[root].cls) # {} /\ token.name \in end_tags(ns[root].cls)
            THEN [error |-> "", nodes |-> ns, scope |-> SubSeq(sc, 1, Len(sc) - 1)]
       ELSE [error |-> "", nodes |-> added, scope |-> sc]

(***************************************************************************)
(* ExpressionParser                                                        *)
(***************************************************************************)
Uppercase == {UpperMap[c] : c \in Lowercase}
Punctuation ==
    {"!", "\"", "#", "$", "%", "&", "'", "(", ")", "*", "+", ",", "-", ".", "/", ":",
     ";", "<", "=", ">", "?", "@", "[", "\\", "]", "^", "_", "{", "|", "}", "~"}
\* string.printable (but for the backquote)
Printable == Digits \cup Lowercase \cup Uppercase \cup Punctuation \cup Whitespace
WordChars == Lowercase \cup {"_"}

\* the first place at or after from whose character is in stops, Len(t) + 1 if none
FindChar(t, from, stops) ==
    LET at == {k \in from..Len(t) : t[k] \in stops}
    IN IF at = {} THEN Len(t) + 1 ELSE Min(at)

\* an optional parse result, as ParseResults.get returns it: absent is None
Absent == [has |-> FALSE, s |-> <<>>]
Present(s) == [has |-> TRUE, s |-> s]
\* the truth value Python gives it: None and '' are false
Truthy(m) == m.has /\ m.s # <<>>

\* variable = Group(Literal('$').suppress() + word): [ok, s, next]
Variable(t, from) ==
    LET d == SkipChars(t, from, Whitespace)
        w0 == SkipChars(t, d + 1, Whitespace)
        w1 == SkipChars(t, w0, WordChars)
    IN IF d > Len(t) \/ t[d] # "$" \/ w1 = w0
       THEN [ok |-> FALSE, s |-> <<>>, next |-> from]
       ELSE [ok |-> TRUE, s |-> SubSeq(t, w0, w1 - 1), next |-> w1]

\* operator = equal | not_equal: [ok, s, next]
Operator(t, from) ==
    LET o == SkipChars(t, from, Whitespace)
    IN IF o <= Len(t) /\ t[o] = "="
       THEN [ok |-> TRUE, s |-> <<"=">>, next |-> o + 1]
       ELSE IF o + 1 <= Len(t) /\ t[o] = "!" /\ t[o + 1] = "="
       THEN [ok |-> TRUE, s |-> <<"!", "=">>, next |-> o + 2]
       ELSE [ok |-> FALSE, s |-> <<>>, next |-> from]

\* QuotedString(quoteChar=q, unquoteResults=True): the quotes on one line: [ok, s, next]
QuotedString(t, from, q) ==
    LET a == SkipChars(t, from, Whitespace)
        b == FindChar(t, a + 1, {q, "\n", "\r"})
    IN IF a > Len(t) \/ t[a] # q \/ b > Len(t) \/ t[b] # q
       THEN [ok |-> FALSE, s |-> <<>>, next |-> from]
       ELSE [ok |-> TRUE, s |-> SubSeq(t, a + 1, b - 1), next |-> b + 1]

\* Word(string.printable): [ok, s, next]
PrintableWord(t, from) ==
    LET a == SkipChars(t, from, Whitespace)
        b == SkipChars(t, a, Printable)
    IN IF b = a THEN [ok |-> FALSE, s |-> <<>>, next |-> from]
       ELSE [ok |-> TRUE, s |-> SubSeq(t, a, b - 1), next |-> b]

\* ExpressionParser().parse(text): expression.parseString(text, parseAll=True), the three
\* alternatives tried in order and the first that matches kept (MatchFirst);
\* ok = FALSE is ParseException
ExpressionParser_parse(t) ==
    LET AtEnd(k) == SkipChars(t, k, Whitespace) > Len(t)
        expr(ok, var, op, txt, re) ==
            [ok |-> ok, variable |-> Present(var), operator |-> op, text |-> txt,
             regexp |-> re]
        \* the alternatives after the operator o: regexp r, quoted text q, printable word w
        operand(v, o, r, q, w) ==
            IF o.ok /\ r.ok THEN expr(AtEnd(r.next), v.s, Present(o.s), Absent, Present(r.s))
            ELSE IF o.ok /\ q.ok
                 THEN expr(AtEnd(q.next), v.s, Present(o.s), Present(q.s), Absent)
            ELSE IF o.ok /\ w.ok
                 THEN expr(AtEnd(w.next), v.s, Present(o.s), Present(w.s), Absent)
            ELSE expr(AtEnd(v.next), v.s, Absent, Absent, Absent)
        operator(v, o) ==
            operand(v, o, QuotedString(t, o.next, "/"), QuotedString(t, o.next, "'"),
                    PrintableWord(t, o.next))
        variable(v) ==
            IF ~v.ok
            THEN [ok |-> FALSE, variable |-> Absent, operator |-> Absent, text |-> Absent,
                  regexp |-> Absent]
            ELSE operator(v, Operator(t, v.next))
    IN variable(Variable(t, 1))

(***************************************************************************)
(* re.match, for the patterns made of literal characters, "." and named    *)
(* groups (?P<name>literal), each optionally followed by "?".              *)
(***************************************************************************)
RegexMeta == {".", "^", "$", "*", "+", "?", "{", "}", "[", "]", "\\", "|", "(", ")"}
GroupOpen == <<"(", "?", "P", "<">>

\* the pattern as a sequence of items [name, lit, opt], name = <<>> for no group;
\* [ok, items], ok = FALSE for a pattern outside this fragment
RECURSIVE RegexItems(_, _, _)
RegexItems(re, k, items) ==
    LET n1 == FindChar(re, k + Len(GroupOpen), {">"})
        l1 == FindChar(re, n1 + 1, {")"})
        isGroup == k + Len(GroupOpen) - 1 <= Len(re)
                   /\ SubSeq(re, k, k + Len(GroupOpen) - 1) = GroupOpen
        after == IF isGroup THEN l1 + 1 ELSE k + 1
        opt == after <= Len(re) /\ re[after] = "?"
        item == IF isGroup
                THEN [name |-> SubSeq(re, k + Len(GroupOpen), n1 - 1),
                      lit |-> SubSeq(re, n1 + 1, l1 - 1), opt |-> opt]
                ELSE [name |-> <<>>, lit |-> <<re[k]>>, opt |-> opt]
        wellFormed ==
            IF isGroup
            THEN /\ l1 <= Len(re)
                 /\ n1 > k + Len(GroupOpen)
                 /\ \A j \in (k + Len(GroupOpen))..(n1 - 1) : re[j] \in WordChars \cup Digits
                 /\ \A j \in (n1 + 1)..(l1 - 1) : re[j] \notin RegexMeta \ {"."}
            ELSE re[k] \notin RegexMeta \ {"."}
    IN IF k > Len(re) THEN [ok |-> TRUE, items |-> items]
       ELSE IF ~wellFormed THEN [ok |-> FALSE, items |-> items]
       ELSE RegexItems(re, IF opt THEN after + 1 ELSE after, Append(items, item))

CharMatch(pc, c) == pc = c \/ (pc = "." /\ c # "\n")

\* the items from k matched at place p of s, an optional item taken when the rest then
\* matches (greedy, with backtracking): [ok, groups], groups the named groups that took part
RECURSIVE MatchItems(_, _, _, _, _)
MatchItems(items, k, s, p, groups) ==
    IF k > Len(items) THEN [ok |-> TRUE, groups |-> groups]
    ELSE LET it == items[k]
             n == Len(it.lit)
             fits == p + n - 1 <= Len(s)
                     /\ \A j \in 1..n : CharMatch(it.lit[j], s[p + j - 1])
             taken == MatchItems(items, k + 1, s, p + n,
                         IF it.name # <<>>
                         THEN Put(groups, it.name, Str(SubSeq(s, p, p + n - 1)))
                         ELSE groups)
         IN IF fits /\ taken.ok THEN taken
            ELSE IF it.opt THEN MatchItems(items, k + 1, s, p, groups)
            ELSE [ok |-> FALSE, groups |-> {}]

\* match.groupdict({}): every named group of the pattern, {} for one that took no part
groupdict(items, groups) ==
    {<<items[k].name, IF items[k].name \in Keys(groups) THEN Get(groups, items[k].name)
                      ELSE EmptyDict>> : k \in {j \in 1..Len(items) : items[j].name # <<>>}}

(***************************************************************************)
(* Expression.evaluate                                                     *)
(***************************************************************************)
\* Expression._get_operator_func applied: eq or ne
op_func(operator, a, b) == IF operator.s = <<"=">> THEN a = b ELSE a # b

\* an evaluate that merges the groups of every match, whatever the comparison gives
Expression_evaluate_on_match(e, ctx) ==
    LET variable == e.variable.s
        res(exc, result, c) == [exc |-> exc, result |-> result, context |-> c]
        matched(compiled, m) ==
            LET result == op_func(e.operator, m.ok, TRUE)
            IN IF m.ok
               THEN res("", result, Update(ctx, groupdict(compiled.items, m.groups)))
               ELSE res("", result, ctx)
        match(compiled, subject) ==
            IF ~compiled.ok THEN res("re.error", FALSE, ctx)
            ELSE IF subject.t # "str" THEN res("TypeError", FALSE, ctx)
            ELSE matched(compiled, MatchItems(compiled.items, 1, subject.s, 1, {}))
    IN IF Truthy(e.regexp) THEN
           match(RegexItems(e.regexp.s, 1, <<>>),
                 IF variable \in Keys(ctx) THEN Get(ctx, variable) ELSE Str(<<>>))
       ELSE IF Truthy(e.text) THEN
           res("", op_func(e.operator,
                           IF variable \in Keys(ctx) THEN Get(ctx, variable) ELSE None,
                           Str(e.text.s)), ctx)
       ELSE IF Truthy(e.variable) THEN res("", variable \in Keys(ctx), ctx)
       ELSE res("ExpressionEvaluationError", FALSE, ctx)

\* expression.evaluate(context): [exc, result, context]; exc # "" is the exception raised
Expression_evaluate(e, ctx) ==
    LET variable == e.variable.s
        res(exc, result, c) == [exc |-> exc, result |-> result, context |-> c]
        matched(compiled, m) ==
            LET result == op_func(e.operator, m.ok, TRUE)
            IN IF result /\ m.ok
               THEN res("", result, Update(ctx, groupdict(compiled.items, m.groups)))
               ELSE res("", result, ctx)
        match(compiled, subject) ==
            IF ~compiled.ok THEN res("re.error", FALSE, ctx)
            ELSE IF subject.t # "str" THEN res("TypeError", FALSE, ctx)
            ELSE matched(compiled, MatchItems(compiled.items, 1, subject.s, 1, {}))
    IN IF Truthy(e.regexp) THEN
           match(RegexItems(e.regexp.s, 1, <<>>),
                 IF variable \in Keys(ctx) THEN Get(ctx, variable) ELSE Str(<<>>))
       ELSE IF Truthy(e.text) THEN
           res("", op_func(e.operator,
                           IF variable \in Keys(ctx) THEN Get(ctx, variable) ELSE None,
                           Str(e.text.s)), ctx)
       ELSE IF Truthy(e.variable) THEN res("", variable \in Keys(ctx), ctx)
       ELSE res("ExpressionEvaluationError", FALSE, ctx)

(***************************************************************************)
(* Node.evaluate, class by class.  Each operator gives the effect of one   *)
(* call of evaluate up to its first call of evaluate_tokens:               *)
(*   kind "value": it returns frag;  kind "call": it returns what          *)
(*   evaluate_tokens(toks, context) returns, inside Echo's try when        *)
(*   echo # 0;  kind "raise": it raises exc.                               *)
(* reads are the context lookups made, <<key, value seen>>, writes the     *)
(* pairs stored, fetch the call made to a collaborator and what it gave.   *)
(***************************************************************************)
Missing == [t |-> "missing", s |-> <<>>, n |-> 0]
\* no collaborator called; by "file" (_get_file) or "virtual" (_get_url) called
NoFetch == [by |-> "", ok |-> FALSE, content |-> <<>>]
FetchBy(by, fetched) == [by |-> by, ok |-> fetched.ok, content |-> fetched.content]
\* a dict of attributes returned as a fragment (a Text node made by a "text" directive)
Object == [t |-> "object", s |-> <<>>, n |-> 0]
Lookup(ctx, k) == IF k \in Keys(ctx) THEN Get(ctx, k) ELSE Missing

K_name == <<"n", "a", "m", "e">>
K_var == <<"v", "a", "r">>
K_default == <<"d", "e", "f", "a", "u", "l", "t">>
K_errmsg == <<"e", "r", "r", "m", "s", "g">>
K_expr == <<"e", "x", "p", "r">>
K_file == <<"f", "i", "l", "e">>
K_virtual == <<"v", "i", "r", "t", "u", "a", "l">>
K_set == <<"s", "e", "t">>
K_stub == <<"s", "t", "u", "b">>
K_value == <<"v", "a", "l", "u", "e">>

\* '[an error occurred while processing the directive]'
ErrorMessage ==
    <<"[", "a", "n", " ", "e", "r", "r", "o", "r", " ", "o", "c", "c", "u", "r", "r",
      "e", "d", " ", "w", "h", "i", "l", "e", " ", "p", "r", "o", "c", "e", "s", "s",
      "i", "n", "g", " ", "t", "h", "e", " ", "d", "i", "r", "e", "c", "t", "i", "v",
      "e", "]">>

Returns(frag, ctx, reads, writes, fetch) ==
    [kind |-> "value", frag |-> frag, context |-> ctx, toks |-> <<>>, echo |-> 0,
     exc |-> "", reads |-> reads, writes |-> writes, fetch |-> fetch]
Calls(toks, echo, ctx, reads, writes, fetch) ==
    [kind |-> "call", frag |-> None, context |-> ctx, toks |-> toks, echo |-> echo,
     exc |-> "", reads |-> reads, writes |-> writes, fetch |-> fetch]
Raises(exc, ctx, reads, fetch) ==
    [kind |-> "raise", frag |-> None, context |-> ctx, toks |-> <<>>, echo |-> 0,
     exc |-> exc, reads |-> reads, writes |-> {}, fetch |-> fetch]

\* self.attributes[k]: "TypeError" when attributes is None, "KeyError" when k is not in it
SubscriptError(a, k) ==
    IF a.t # "dict" THEN "TypeError" ELSE IF k \notin Keys(a.d) THEN "KeyError" ELSE ""
\* self.attributes.get(k), for attributes a dict
AttributeGet(a, k) == IF k \in Keys(a.d) THEN Present(Get(a.d, k).s) ELSE Absent

\* Node.evaluate (Node, Noop, Else, Endif, Endblock)
Node_evaluate(nd, ctx) == Calls(nd.children, 0, ctx, {}, {}, NoFetch)

\* a Text.evaluate that returns its text stripped of the whitespace around it
Text_evaluate_stripped(nd, ctx) ==
    Returns(CASE nd.attributes.t = "str" -> Str(Strip(nd.attributes.s))
              [] nd.attributes.t = "none" -> None
              [] OTHER -> Object,
            ctx, {}, {}, NoFetch)

\* Text.evaluate
Text_evaluate(nd, ctx) ==
    Returns(CASE nd.attributes.t = "str" -> Str(nd.attributes.s)
              [] nd.attributes.t = "none" -> None
              [] OTHER -> Object,
            ctx, {}, {}, NoFetch)

\* Block.evaluate that evaluates its children where the block stands
Block_evaluate_eager(n, nd, ctx) ==
    Calls(nd.children, 0, Put(ctx, Get(nd.attributes.d, K_name).s, BlockValue(n)), {},
          {<<Get(nd.attributes.d, K_name).s, BlockValue(n)>>}, NoFetch)

\* Block.evaluate
Block_evaluate(n, nd, ctx) ==
    LET name == Get(nd.attributes.d, K_name).s
    IN IF SubscriptError(nd.attributes, K_name) # ""
       THEN Raises(SubscriptError(nd.attributes, K_name), ctx, {}, NoFetch)
       ELSE Returns(None, Put(ctx, name, BlockValue(n)), {}, {<<name, BlockValue(n)>>}, NoFetch)

\* a Config.evaluate that replaces the context by its attributes
Config_evaluate_replace(nd, ctx) ==
    IF nd.attributes.t # "dict" THEN Raises("TypeError", ctx, {}, NoFetch)
    ELSE Returns(None, nd.attributes.d, {}, nd.attributes.d, NoFetch)

\* Config.evaluate
Config_evaluate(nd, ctx) ==
    IF nd.attributes.t # "dict" THEN Raises("TypeError", ctx, {}, NoFetch)
    ELSE Returns(None, Update(ctx, nd.attributes.d), {}, nd.attributes.d, NoFetch)

\* Echo.evaluate's except KeyError clause: what the echo returns then
Echo_except(nd, ctx) ==
    IF K_default \in Keys(nd.attributes.d) THEN Get(nd.attributes.d, K_default)
    ELSE IF K_errmsg \in Keys(ctx) THEN Get(ctx, K_errmsg)
    ELSE Str(ErrorMessage)

\* what the except clause reads of the context
Echo_except_reads(nd, ctx) ==
    IF K_default \in Keys(nd.attributes.d) THEN {} ELSE {<<K_errmsg, Lookup(ctx, K_errmsg)>>}

\* Echo.evaluate
Echo_evaluate(n, nd, ctx, ns) ==
    LET var == Get(nd.attributes.d, K_var).s
        value == Get(ctx, var)
    IN IF SubscriptError(nd.attributes, K_var) # ""
       THEN Raises(SubscriptError(nd.attributes, K_var), ctx, {}, NoFetch)
       ELSE IF var \notin Keys(ctx)
       THEN Returns(Echo_except(nd, ctx), ctx,
                    {<<var, Missing>>} \cup Echo_except_reads(nd, ctx), {}, NoFetch)
       ELSE IF value.t = "block"
       THEN Calls(ns[value.n].children, n, ctx, {<<var, value>>}, {}, NoFetch)
       ELSE Returns(value, ctx, {<<var, value>>}, {}, NoFetch)

\* the context keys an expression's evaluation looks up
Expression_reads(e, ctx) ==
    IF e.variable.has THEN {<<e.variable.s, Lookup(ctx, e.variable.s)>>} ELSE {}

\* an If.evaluate that takes an expr outside the grammar for a false condition
If_evaluate_unchecked(nd, ctx) ==
    LET otherwise ==
            IF nd.else_tokens # <<>> THEN Calls(nd.else_tokens, 0, ctx, {}, {}, NoFetch)
            ELSE Returns(None, ctx, {}, {}, NoFetch)
        branch(r, reads) ==
            IF r.exc # "" THEN Raises(r.exc, ctx, reads, NoFetch)
            ELSE IF r.result
                 THEN Calls(nd.children, 0, r.context, reads, r.context \ ctx, NoFetch)
            ELSE IF nd.else_tokens # <<>>
                 THEN Calls(nd.else_tokens, 0, r.context, reads, r.context \ ctx, NoFetch)
            ELSE Returns(None, r.context, reads, r.context \ ctx, NoFetch)
        evaluate(expression) ==
            IF ~expression.ok THEN otherwise
            ELSE branch(Expression_evaluate(expression, ctx),
                        Expression_reads(expression, ctx))
    IN IF SubscriptError(nd.attributes, K_expr) # ""
       THEN Raises(SubscriptError(nd.attributes, K_expr), ctx, {}, NoFetch)
       ELSE evaluate(ExpressionParser_parse(Get(nd.attributes.d, K_expr).s))

\* If.evaluate (Elif inherits it)
If_evaluate(nd, ctx) ==
    LET branch(r, reads) ==
            IF r.exc # "" THEN Raises(r.exc, ctx, reads, NoFetch)
            ELSE IF r.result
                 THEN Calls(nd.children, 0, r.context, reads, r.context \ ctx, NoFetch)
            ELSE IF nd.else_tokens # <<>>
                 THEN Calls(nd.else_tokens, 0, r.context, reads, r.context \ ctx, NoFetch)
            ELSE Returns(None, r.context, reads, r.context \ ctx, NoFetch)
        evaluate(expression) ==
            IF ~expression.ok THEN Raises("ParseException", ctx, {}, NoFetch)
            ELSE branch(Expression_evaluate(expression, ctx),
                        Expression_reads(expression, ctx))
    IN IF SubscriptError(nd.attributes, K_expr) # ""
       THEN Raises(SubscriptError(nd.attributes, K_expr), ctx, {}, NoFetch)
       ELSE evaluate(ExpressionParser_parse(Get(nd.attributes.d, K_expr).s))

\* an Include.evaluate that resolves the stub of an empty content before it looks at set
Include_evaluate_stub_first(nd, ctx, ns, fetched) ==
    LET a == nd.attributes
        file == AttributeGet(a, K_file)
        url == AttributeGet(a, K_virtual)
        set_ == AttributeGet(a, K_set)
        stub == AttributeGet(a, K_stub)
        fetch == FetchBy(IF Truthy(url) THEN "virtual" ELSE "file", fetched)
        content == fetched.content
        block == Get(ctx, stub.s)
    IN IF a.t # "dict" THEN Raises("AttributeError", ctx, {}, NoFetch)
       ELSE IF (Truthy(file) /\ Truthy(url)) \/ ~(Truthy(file) \/ Truthy(url))
       THEN Raises("Exception", ctx, {}, NoFetch)
       ELSE IF ~fetched.ok THEN Raises("CollaboratorError", ctx, {}, fetch)
       ELSE IF content = <<>> /\ Truthy(stub)
       THEN IF stub.s \notin Keys(ctx)
            THEN Raises("KeyError", ctx, {<<stub.s, Missing>>}, fetch)
            ELSE IF block.t = "block"
            THEN Calls(ns[block.n].children, 0, ctx, {<<stub.s, block>>}, {}, fetch)
            ELSE Returns(block, ctx, {<<stub.s, block>>}, {}, fetch)
       ELSE IF Truthy(set_)
       THEN Returns(None, Put(ctx, set_.s, Str(content)), {}, {<<set_.s, Str(content)>>}, fetch)
       ELSE Returns(Str(content), ctx, {}, {}, fetch)

\* an Include.evaluate that calls its collaborator before it checks file and virtual
Include_evaluate_fetch_first(nd, ctx, ns, fetched) ==
    LET a == nd.attributes
        file == AttributeGet(a, K_file)
        url == AttributeGet(a, K_virtual)
        set_ == AttributeGet(a, K_set)
        stub == AttributeGet(a, K_stub)
        fetch == FetchBy(IF Truthy(url) THEN "virtual" ELSE "file", fetched)
        content == fetched.content
        block == Get(ctx, stub.s)
    IN IF a.t # "dict" THEN Raises("AttributeError", ctx, {}, NoFetch)
       ELSE IF ~fetched.ok THEN Raises("CollaboratorError", ctx, {}, fetch)
       ELSE IF (Truthy(file) /\ Truthy(url)) \/ ~(Truthy(file) \/ Truthy(url))
       THEN Raises("Exception", ctx, {}, fetch)
       ELSE IF Truthy(set_)
       THEN Returns(None, Put(ctx, set_.s, Str(content)), {}, {<<set_.s, Str(content)>>}, fetch)
       ELSE IF content = <<>> /\ Truthy(stub)
       THEN IF stub.s \notin Keys(ctx)
            THEN Raises("KeyError", ctx, {<<stub.s, Missing>>}, fetch)
            ELSE IF block.t = "block"
            THEN Calls(ns[block.n].children, 0, ctx, {<<stub.s, block>>}, {}, fetch)
            ELSE Returns(block, ctx, {<<stub.s, block>>}, {}, fetch)
       ELSE Returns(Str(content), ctx, {}, {}, fetch)

\* Include.evaluate; fetched = [ok, content] is what the collaborator called gives:
\* ok = FALSE when it raises (open fails, raise_for_status raises)
Include_evaluate(nd, ctx, ns, fetched) ==
    LET a == nd.attributes
        file == AttributeGet(a, K_file)
        url == AttributeGet(a, K_virtual)
        set_ == AttributeGet(a, K_set)
        stub == AttributeGet(a, K_stub)
        fetch == FetchBy(IF Truthy(url) THEN "virtual" ELSE "file", fetched)
        content == fetched.content
        block == Get(ctx, stub.s)
    IN IF a.t # "dict" THEN Raises("AttributeError", ctx, {}, NoFetch)
       ELSE IF (Truthy(file) /\ Truthy(url)) \/ ~(Truthy(file) \/ Truthy(url))
       THEN Raises("Exception", ctx, {}, NoFetch)
       ELSE IF ~fetched.ok THEN Raises("CollaboratorError", ctx, {}, fetch)
       ELSE IF Truthy(set_)
       THEN Returns(None, Put(ctx, set_.s, Str(content)), {}, {<<set_.s, Str(content)>>}, fetch)
       ELSE IF content = <<>> /\ Truthy(stub)
       THEN IF stub.s \notin Keys(ctx)
            THEN Raises("KeyError", ctx, {<<stub.s, Missing>>}, fetch)
            ELSE IF block.t = "block"
            THEN Calls(ns[block.n].children, 0, ctx, {<<stub.s, block>>}, {}, fetch)
            ELSE Returns(block, ctx, {<<stub.s, block>>}, {}, fetch)
       ELSE Returns(Str(content), ctx, {}, {}, fetch)

\* Set.evaluate that stores into a copy of the context
Set_evaluate_copy(nd, ctx) ==
    IF SubscriptError(nd.attributes, K_var) # "" \/ SubscriptError(nd.attributes, K_value) # ""
    THEN Raises("KeyError", ctx, {}, NoFetch)
    ELSE Returns(None, ctx, {},
                 {<<Get(nd.attributes.d, K_var).s, Get(nd.attributes.d, K_value)>>}, NoFetch)

\* Set.evaluate
Set_evaluate(nd, ctx) ==
    LET e1 == SubscriptError(nd.attributes, K_var)
        e2 == SubscriptError(nd.attributes, K_value)
        var == Get(nd.attributes.d, K_var).s
        value == Get(nd.attributes.d, K_value)
    IN IF e1 # "" THEN Raises(e1, ctx, {}, NoFetch)
       ELSE IF e2 # "" THEN Raises(e2, ctx, {}, NoFetch)
       ELSE Returns(None, Put(ctx, var, value), {}, {<<var, value>>}, NoFetch)

(***************************************************************************)
(* evaluate_tokens: the list comprehension and the join                    *)
(***************************************************************************)
\* bool(fragment), as filter(None, result) tests it
IsTrue(v) == v.t \in {"block", "object"} \/ (v.t = "str" /\ v.s # <<>>)

\* ''.join(filter(None, result)): [exc, s]; a fragment that is true and not a string
\* makes join raise TypeError
RECURSIVE Concat(_)
Concat(frags) ==
    IF frags = <<>> THEN <<>>
    ELSE (IF IsTrue(frags[1]) THEN frags[1].s ELSE <<>>) \o Concat(Tail(frags))

Join(result) ==
    [exc |-> IF \E k \in 1..Len(result) : IsTrue(result[k]) /\ result[k].t # "str"
             THEN "TypeError" ELSE "",
     s |-> Concat(result)]

(***************************************************************************)
(* The state machine                                                       *)
(***************************************************************************)
\* the depth of nested evaluate_tokens calls at which Python raises RecursionError
RecursionLimit == 5

Max(S) == CHOOSE m \in S : \A k \in S : k <= m

Frame(toks, echo) == [toks |-> toks, i |-> 1, result |-> <<>>, echo |-> echo]
Top == stack[Len(stack)]
Current == Top.toks[Top.i]

Event(op, n, ctx, eff) ==
    [op |-> op, n |-> n, ctx |-> ctx, kind |-> eff.kind, frag |-> eff.frag,
     exc |-> eff.exc, reads |-> eff.reads, writes |-> eff.writes, fetch |-> eff.fetch,
     toks |-> eff.toks, after |-> eff.context, depth |-> Len(stack)]

\* the list comprehension takes the fragment a node's evaluate returned
Deliver(st, frag) ==
    [st EXCEPT ![Len(st)] = [@ EXCEPT !.i = @ + 1, !.result = Append(@, frag)]]

\* exc propagates from the innermost call: a KeyError that passes through a call made
\* inside an Echo's try (the innermost such call) is caught there, and that echo returns
\* its except clause's value; any other exception leaves root.evaluate
Unwind(exc, ctx, lg) ==
    LET handlers == {h \in 1..Len(stack) : stack[h].echo # 0}
        h == Max(handlers)
        e == stack[h].echo
        caught == Returns(Echo_except(nodes[e], ctx), ctx,
                          Echo_except_reads(nodes[e], ctx), {}, NoFetch)
    IN /\ context' = ctx
       /\ UNCHANGED output
       /\ IF exc = "KeyError" /\ handlers # {}
          THEN /\ stack' = Deliver(SubSeq(stack, 1, h - 1), caught.frag)
               /\ log' = Append(lg, [Event("except", e, ctx, caught) EXCEPT !.exc = exc])
               /\ UNCHANGED <<phase, error>>
          ELSE /\ stack' = <<>>
               /\ phase' = "raised"
               /\ error' = exc
               /\ log' = lg

\* an Apply for a runtime without a recursion limit: a call at the deepest level the
\* stack can hold never returns
Apply_unguarded(eff) ==
    LET lg == Append(log, Event("evaluate", Current, context, eff))
    IN /\ UNCHANGED <<text, pos, half, emitted, nodes, scope>>
       /\ CASE eff.kind = "value" ->
                 /\ stack' = Deliver(stack, eff.frag)
                 /\ context' = eff.context
                 /\ log' = lg
                 /\ UNCHANGED <<phase, error, output>>
            [] eff.kind = "call" ->
                 /\ Len(stack) < RecursionLimit
                 /\ stack' = Append(stack, Frame(eff.toks, eff.echo))
                 /\ context' = eff.context
                 /\ log' = lg
                 /\ UNCHANGED <<phase, error, output>>
            [] OTHER -> Unwind(eff.exc, eff.context, lg)

\* the effect eff of the current node's evaluate takes place
Apply(eff) ==
    LET lg == Append(log, Event("evaluate", Current, context, eff))
    IN /\ UNCHANGED <<text, pos, half, emitted, nodes, scope>>
       /\ CASE eff.kind = "value" ->
                 /\ stack' = Deliver(stack, eff.frag)
                 /\ context' = eff.context
                 /\ log' = lg
                 /\ UNCHANGED <<phase, error, output>>
            [] eff.kind = "call" /\ Len(stack) < RecursionLimit ->
                 /\ stack' = Append(stack, Frame(eff.toks, eff.echo))
                 /\ context' = eff.context
                 /\ log' = lg
                 /\ UNCHANGED <<phase, error, output>>
            [] eff.kind = "call" /\ Len(stack) >= RecursionLimit ->
                 Unwind("RecursionError", eff.context, lg)
            [] OTHER -> Unwind(eff.exc, eff.context, lg)

AtNode(classes) ==
    /\ phase = "eval"
    /\ Top.i <= Len(Top.toks)
    /\ nodes[Current].cls \in classes

\* parse: one pass of inner's for loop, on the next token lexemize yields
ParseToken ==
    /\ phase = "parse"
    /\ LET build(b) ==
               IF b.error # ""
               THEN /\ phase' = "raised"
                    /\ error' = b.error
                    /\ UNCHANGED <<nodes, scope>>
               ELSE /\ nodes' = b.nodes
                    /\ scope' = b.scope
                    /\ UNCHANGED <<phase, error>>
           next(r) ==
               /\ r.kind = "yield"
               /\ emitted' = Append(emitted, [token |-> r.token, at |-> r.at])
               /\ pos' = r.pos
               /\ half' = r.half
               /\ build(inner(nodes, scope, r.token, Len(emitted) + 1))
       IN next(lexemize(text, pos, half))
    /\ UNCHANGED <<text, context, stack, output, log>>

\* parse: lexemize raises ('End marker not found', or tokenize's ParseException)
ParseRaise ==
    /\ phase = "parse"
    /\ LET next(r) ==
               /\ r.kind = "raise"
               /\ pos' = r.pos
               /\ half' = r.half
               /\ phase' = "raised"
               /\ error' = r.error
       IN next(lexemize(text, pos, half))
    /\ UNCHANGED <<text, emitted, nodes, scope, context, stack, output, log>>

\* a parse that checks, when lexemize is exhausted, that no scope is left open
ParseReturn_strict ==
    /\ phase = "parse"
    /\ LET next(r) == r.kind = "stop" /\ half' = r.half
       IN next(lexemize(text, pos, half))
    /\ IF Len(scope) > 1
       THEN phase' = "raised" /\ error' = "End marker not found" /\ UNCHANGED scope
       ELSE phase' = "parsed" /\ scope' = <<>> /\ UNCHANGED error
    /\ UNCHANGED <<text, pos, emitted, nodes, context, stack, output, log>>

\* parse: lexemize is exhausted, every call of inner returns and parse returns head
ParseReturn ==
    /\ phase = "parse"
    /\ LET next(r) == r.kind = "stop" /\ half' = r.half
       IN next(lexemize(text, pos, half))
    /\ phase' = "parsed"
    /\ scope' = <<>>
    /\ UNCHANGED <<text, pos, emitted, nodes, context, stack, output, error, log>>

\* root.evaluate(context): Node.evaluate of head
Evaluate ==
    /\ phase = "parsed"
    /\ phase' = "eval"
    /\ stack' = <<Frame(nodes[1].children, 0)>>
    /\ log' = Append(log, Event("render", 1, context, Node_evaluate(nodes[1], context)))
    /\ UNCHANGED <<text, pos, half, emitted, nodes, scope, context, output, error>>

EvalNode ==
    AtNode({"Node", "Else", "Endif", "Endblock"}) /\ Apply(Node_evaluate(nodes[Current], context))
EvalText == AtNode({"Text"}) /\ Apply(Text_evaluate(nodes[Current], context))
EvalBlock == AtNode({"Block"}) /\ Apply(Block_evaluate(Current, nodes[Current], context))
EvalConfig == AtNode({"Config"}) /\ Apply(Config_evaluate(nodes[Current], context))
EvalEcho == AtNode({"Echo"}) /\ Apply(Echo_evaluate(Current, nodes[Current], context, nodes))
EvalIf ==
    /\ AtNode({"If", "Elif"})
    /\ \E eff \in {If_evaluate(nodes[Current], context)} : Apply(eff)
EvalSet == AtNode({"Set"}) /\ Apply(Set_evaluate(nodes[Current], context))

\* what _get_file and _get_url can give: a content (a file's is stripped) or a failure
Contents == {<<>>, <<"f">>}
Fetched == [ok : {TRUE}, content : Contents] \cup [ok : {FALSE}, content : {<<>>}]

EvalInclude ==
    /\ AtNode({"Include"})
    /\ \E fetched \in Fetched : Apply(Include_evaluate(nodes[Current], context, nodes, fetched))

\* evaluate_tokens returns: the join of the fragments, to the node that called it
Return ==
    /\ phase = "eval"
    /\ Top.i > Len(Top.toks)
    /\ UNCHANGED <<text, pos, half, emitted, nodes, scope>>
    /\ LET j == Join(Top.result)
           caller == IF Len(stack) = 1 THEN 1
                     ELSE stack[Len(stack) - 1].toks[stack[Len(stack) - 1].i]
           ev == Event("return", caller, context, Returns(Str(j.s), context, {}, {}, NoFetch))
       IN IF j.exc # "" THEN Unwind(j.exc, context, log)
          ELSE /\ log' = Append(log, ev)
               /\ UNCHANGED <<context, error>>
               /\ IF Len(stack) = 1
                  THEN /\ phase' = "done"
                       /\ output' = j.s
                       /\ stack' = <<>>
                  ELSE /\ stack' = Deliver(SubSeq(stack, 1, Len(stack) - 1), Str(j.s))
                       /\ UNCHANGED <<phase, output>>

Next ==
    \/ ParseToken
    \/ ParseRaise
    \/ ParseReturn
    \/ Evaluate
    \/ EvalNode
    \/ EvalText
    \/ EvalBlock
    \/ EvalConfig
    \/ EvalEcho
    \/ EvalIf
    \/ EvalSet
    \/ EvalInclude
    \/ Return

\* the steps of root.evaluate
Render ==
    \/ Evaluate
    \/ EvalNode
    \/ EvalText
    \/ EvalBlock
    \/ EvalConfig
    \/ EvalEcho
    \/ EvalIf
    \/ EvalSet
    \/ EvalInclude
    \/ Return

InitWith(documents, contexts) ==
    /\ text \in documents
    /\ context \in contexts
    /\ phase = "parse"
    /\ pos = 1
    /\ half = "start"
    /\ emitted = <<>>
    /\ nodes = <<NewNode("Node", NoAttributes, 0)>>
    /\ scope = <<1>>
    /\ stack = <<>>
    /\ output = <<>>
    /\ error = ""
    /\ log = <<>>

(***************************************************************************)
(* Documents                                                               *)
(***************************************************************************)
\* <!--# body -->
Directive(body) == StartDelimiter \o <<" ">> \o body \o <<" ">> \o EndDelimiter
\* key="value"
Attribute(key, value) == key \o <<"=", "\"">> \o value \o <<"\"">>
Sp == <<" ">>

V_block == <<"b", "l", "o", "c", "k">>
V_endblock == <<"e", "n", "d", "b", "l", "o", "c", "k">>
V_config == <<"c", "o", "n", "f", "i", "g">>
V_echo == <<"e", "c", "h", "o">>
V_if == <<"i", "f">>
V_elif == <<"e", "l", "i", "f">>
V_else == <<"e", "l", "s", "e">>
V_endif == <<"e", "n", "d", "i", "f">>
V_include == <<"i", "n", "c", "l", "u", "d", "e">>
V_set == <<"s", "e", "t">>

BlockD(name) == Directive(V_block \o Sp \o Attribute(K_name, name))
EndblockD == Directive(V_endblock)
EchoD(var) == Directive(V_echo \o Sp \o Attribute(K_var, var))
EchoDefaultD(var, default) ==
    Directive(V_echo \o Sp \o Attribute(K_var, var) \o Sp \o Attribute(K_default, default))
SetD(var, value) ==
    Directive(V_set \o Sp \o Attribute(K_var, var) \o Sp \o Attribute(K_value, value))
ConfigD(key, value) == Directive(V_config \o Sp \o Attribute(key, value))
IfD(expr) == Directive(V_if \o Sp \o Attribute(K_expr, expr))
ElifD(expr) == Directive(V_elif \o Sp \o Attribute(K_expr, expr))
ElseD == Directive(V_else)
EndifD == Directive(V_endif)
IncludeD(attributes) == Directive(V_include \o attributes)

RECURSIVE Flatten(_)
Flatten(pieces) == IF pieces = <<>> THEN <<>> ELSE pieces[1] \o Flatten(Tail(pieces))

\* the sequences of at most n pieces
RECURSIVE SeqsUpTo(_, _)
SeqsUpTo(pieces, n) ==
    IF n = 0 THEN {<<>>}
    ELSE LET shorter == SeqsUpTo(pieces, n - 1)
         IN shorter \cup {Append(q, p) : q \in shorter, p \in pieces}

(***************************************************************************)
(* Documents after the cases of tests/test_parser.py, which between them   *)
(* use every directive; every specification below renders them too         *)
(***************************************************************************)
N_name == <<"n", "a", "m", "e">>
Foo == <<"f", "o", "o">>
Bar == <<"b", "a", "r">>
Baz == <<"b", "a", "z">>
\* $name, $name = foo, $name = bar
NameExpr == <<"$">> \o N_name
NameEquals(word) == NameExpr \o <<" ", "=", " ">> \o word

TourDocuments ==
    {<<"<", "d", "i", "v", ">">>,
     Flatten(<<BlockD(N_name), Foo, EndblockD, EchoD(N_name)>>),
     Flatten(<<ConfigD(K_errmsg, Bar), EchoD(Foo)>>),
     Flatten(<<IfD(NameExpr), Foo, ElseD, Bar, EndifD>>),
     Flatten(<<IfD(NameEquals(Foo)), Foo, ElifD(NameEquals(Bar)), Bar, ElseD, Baz, EndifD>>),
     Flatten(<<SetD(N_name, Foo), EchoD(N_name)>>),
     Flatten(<<IncludeD(Sp \o Attribute(K_file, Foo) \o Sp \o Attribute(K_set, N_name)),
               EchoD(N_name)>>),
     Flatten(<<Foo, StartDelimiter, Sp, V_endif>>)}

(***************************************************************************)
(* Blocks, set and echo: a block named b whose body is drawn from          *)
(* BlockBody, followed by a tail drawn from BlockTail, and the tails       *)
(* alone                                                                   *)
(***************************************************************************)
MaxBody == 1
MaxTail == 3

BlockBody ==
    {EchoD(<<"x">>), SetD(<<"x">>, <<"2">>),
     IncludeD(Sp \o Attribute(K_file, <<"f">>) \o Sp \o Attribute(K_stub, <<"z">>))}
BlockTail ==
    {EchoD(<<"b">>), EchoD(<<"x">>), SetD(<<"x">>, <<"1">>), ConfigD(K_errmsg, <<"e">>)}

BlockDocuments ==
    {Flatten(<<BlockD(<<"b">>)>> \o body \o <<EndblockD>> \o tail) :
        body \in SeqsUpTo(BlockBody, MaxBody), tail \in SeqsUpTo(BlockTail, MaxTail)}
    \cup {Flatten(tail) : tail \in SeqsUpTo(BlockTail, MaxTail)}

BlockContexts == {{}, {<<<<"x">>, Str(<<"0">>)>>}}

InitBlock == InitWith(BlockDocuments \cup TourDocuments, BlockContexts)
SpecBlock == InitBlock /\ [][Next]_vars

(***************************************************************************)
(* The context as a store: every directive that writes the key x and       *)
(* every directive that reads it, in every order                           *)
(***************************************************************************)
MaxStore == 3

\* $k = /(?P<x>v)/
CaptureExpr == <<"$", "k", " ", "=", " ", "/", "(", "?", "P", "<", "x", ">", "v", ")", "/">>

StorePieces ==
    {SetD(<<"x">>, <<"1">>),
     ConfigD(<<"x">>, <<"2">>),
     IncludeD(Sp \o Attribute(K_file, <<"f">>) \o Sp \o Attribute(K_set, <<"x">>)),
     IfD(CaptureExpr) \o EndifD,
     BlockD(<<"x">>) \o <<"a">> \o EndblockD,
     EchoD(<<"x">>),
     IfD(<<"$", "x">>) \o <<"y">> \o EndifD,
     IncludeD(Sp \o Attribute(K_file, <<"f">>) \o Sp \o Attribute(K_stub, <<"x">>))}

StoreDocuments == {Flatten(d) : d \in SeqsUpTo(StorePieces, MaxStore)}
StoreContexts ==
    {{<<<<"k">>, Str(<<"v">>)>>},
     {<<<<"k">>, Str(<<"v">>)>>, <<<<"x">>, Str(<<"0">>)>>}}

InitStore == InitWith(StoreDocuments \cup TourDocuments, StoreContexts)
SpecStore == InitStore /\ [][Next]_vars

(***************************************************************************)
(* Conditional chains: documents made of at most MaxSegments segments,     *)
(* each a chain, a text, an if that is never closed, or an if or elif      *)
(* whose expr or attribute text is not in its grammar                      *)
(***************************************************************************)
MaxSegments == 2

ExprA == <<"$", "a">>
ExprB == <<"$", "b">>
\* an expr outside the expression grammar: a variable without its $
BadExpr == <<"a">>
\* <!--# if expr=$a -->: an attribute value without its quotes
UnquotedIfD == Directive(V_if \o Sp \o K_expr \o <<"=">> \o ExprA)

IfEndif == Flatten(<<IfD(ExprA), <<"1">>, EndifD>>)
IfElseEndif == Flatten(<<IfD(ExprA), <<"1">>, ElseD, <<"3">>, EndifD>>)
IfElifEndif == Flatten(<<IfD(ExprA), <<"1">>, ElifD(ExprB), <<"2">>, EndifD>>)
IfElifElseEndif ==
    Flatten(<<IfD(ExprA), <<"1">>, ElifD(ExprB), <<"2">>, ElseD, <<"3">>, EndifD>>)
IfUnclosed == Flatten(<<IfD(ExprA), <<"1">>>>)
IfBadExpr == Flatten(<<IfD(BadExpr), <<"5">>, EndifD>>)
ElifBadExpr == Flatten(<<IfD(ExprA), <<"1">>, ElifD(BadExpr), <<"5">>, EndifD>>)
IfUnquoted == Flatten(<<UnquotedIfD, <<"6">>, EndifD>>)

Segments ==
    {IfEndif, IfElseEndif, IfElifEndif, IfElifElseEndif, <<"4">>, IfUnclosed, IfBadExpr,
     ElifBadExpr, IfUnquoted}

ChainDocuments == {Flatten(d) : d \in SeqsUpTo(Segments, MaxSegments)}
ChainContexts ==
    {{}, {<<<<"a">>, Str(<<"1">>)>>}, {<<<<"b">>, Str(<<"1">>)>>},
     {<<<<"a">>, Str(<<"1">>)>>, <<<<"b">>, Str(<<"1">>)>>}}

InitChain == InitWith(ChainDocuments \cup TourDocuments, ChainContexts)
SpecChain == InitChain /\ [][Next]_vars

(***************************************************************************)
(* Includes: at most MaxIncludes include directives, each with its file,   *)
(* virtual, set and stub attributes absent, given or given as "", after a  *)
(* block b or not, before an echo of x or not; and one include inside a    *)
(* block that an echo invokes, or inside the branch of an if               *)
(***************************************************************************)
MaxIncludes == 1

\* an attribute left out, given the value v, given the value ""
Slot(key, v) == {<<>>, Sp \o Attribute(key, v), Sp \o Attribute(key, <<>>)}
Sources == {f \o v : f \in Slot(K_file, <<"f">>), v \in Slot(K_virtual, <<"u">>)}
Options == {x \o b : x \in Slot(K_set, <<"x">>), b \in Slot(K_stub, <<"b">>)}
IncludeDirectives ==
    {IncludeD(src) : src \in Sources}
    \cup {IncludeD(Sp \o Attribute(K_file, <<"f">>) \o o) : o \in Options}
    \cup {IncludeD(Sp \o Attribute(K_virtual, <<"u">>) \o o) : o \in Options}
    \cup {IncludeD(Sp \o Attribute(K_set, <<"x">>)),
          IncludeD(Sp \o Attribute(K_file, <<"f">>) \o Sp \o Attribute(K_virtual, <<"u">>)
                   \o Sp \o Attribute(K_set, <<"x">>))}

IncludeDocuments ==
    {Flatten(<<before>> \o includes \o <<after>>) :
        before \in {<<>>, Flatten(<<BlockD(<<"b">>), <<"1">>, EndblockD>>)},
        includes \in SeqsUpTo(IncludeDirectives, MaxIncludes),
        after \in {<<>>, EchoD(<<"x">>)}}
    \cup {Flatten(<<BlockD(<<"z">>), d, EndblockD, EchoD(<<"z">>)>>) : d \in IncludeDirectives}
    \cup {Flatten(<<IfD(<<"$", "k">>), d, EndifD>>) : d \in IncludeDirectives}
IncludeContexts ==
    {{<<<<"k">>, Str(<<"1">>)>>},
     {<<<<"k">>, Str(<<"1">>)>>, <<<<"b">>, Str(<<"s">>)>>, <<<<"x">>, Str(<<"0">>)>>}}

InitInclude == InitWith(IncludeDocuments \cup TourDocuments, IncludeContexts)
SpecInclude == InitInclude /\ [][Next]_vars

(***************************************************************************)
(* Regex expressions: at most MaxRegex pieces, each an if on a regex test  *)
(* of v with named groups, or an echo of a group's name                    *)
(***************************************************************************)
MaxRegex == 3

\* $v = /(?P<x>a)(?P<y>b)?/
MatchXY ==
    <<"$", "v", " ", "=", " ", "/", "(", "?", "P", "<", "x", ">", "a", ")",
      "(", "?", "P", "<", "y", ">", "b", ")", "?", "/">>
\* $v != /(?P<x>a)/
NoMatchX == <<"$", "v", " ", "!", "=", " ", "/", "(", "?", "P", "<", "x", ">", "a", ")", "/">>
\* $v = /(?P<x>.)b/
MatchDot == <<"$", "v", " ", "=", " ", "/", "(", "?", "P", "<", "x", ">", ".", ")", "b", "/">>

RegexPieces ==
    {Flatten(<<IfD(MatchXY), EchoD(<<"x">>), EndifD>>),
     Flatten(<<IfD(NoMatchX), <<"1">>, EndifD>>),
     Flatten(<<IfD(MatchDot), <<"2">>, EndifD>>),
     EchoD(<<"x">>),
     EchoD(<<"y">>)}

RegexDocuments == {Flatten(d) : d \in SeqsUpTo(RegexPieces, MaxRegex)}
RegexContexts ==
    {{},
     {<<<<"v">>, Str(<<"a">>)>>},
     {<<<<"v">>, Str(<<"a", "b">>)>>, <<<<"x">>, Str(<<"0">>)>>},
     {<<<<"v">>, Str(<<"a">>)>>, <<<<"y">>, Str(<<"0">>)>>},
     {<<<<"v">>, Str(<<"b", "b">>)>>}}

InitRegex == InitWith(RegexDocuments \cup TourDocuments, RegexContexts)
SpecRegex == InitRegex /\ [][Next]_vars

(***************************************************************************)
(* Lexing: documents of at most MaxPieces pieces, each a character, a      *)
(* delimiter, or a whole directive (well formed, with an attribute text    *)
(* outside the grammar, with an unknown verb)                              *)
(***************************************************************************)
MaxPieces == 4

\* <!--# echo var=x -->
UnquotedEchoD == Directive(V_echo \o Sp \o K_var \o <<"=", "x">>)
LexPieces ==
    {<<"a">>, <<" ">>, StartDelimiter, EndDelimiter,
     EchoD(<<"x">>), UnquotedEchoD, Directive(Foo)}

LexDocuments == {Flatten(d) : d \in SeqsUpTo(LexPieces, MaxPieces)}

InitLex == InitWith(LexDocuments \cup TourDocuments, {{}})
SpecLex == InitLex /\ [][Next]_vars

(***************************************************************************)
(* Plain text: documents of at most MaxPlain pieces, each a character or a *)
(* part of a delimiter, most of them without a start delimiter             *)
(***************************************************************************)
MaxPlain == 4

PlainPieces ==
    {<<"a">>, <<" ">>, <<"\n">>, <<"<", "!", "-", "-">>, <<"#">>, EndDelimiter, <<"<">>}

PlainDocuments == {Flatten(d) : d \in SeqsUpTo(PlainPieces, MaxPlain)}
PlainContexts ==
    {{}, {<<<<"x">>, Str(<<"0">>)>>}, {<<K_errmsg, Str(<<"e">>)>>, <<N_name, Str(Foo)>>}}

InitPlain == InitWith(PlainDocuments \cup TourDocuments, PlainContexts)
SpecPlain == InitPlain /\ [][Next]_vars

(***************************************************************************)
(* Comparisons: at most MaxExprs ifs, each on an existence test of v or a  *)
(* comparison of v with a word, a quoted text or the empty quoted text,    *)
(* against contexts where v is absent, None, empty or a text               *)
(***************************************************************************)
MaxExprs == 2

ExprV == <<"$", "v">>
\* $v = a, $v != a
EqualsWord == <<"$", "v", " ", "=", " ", "a">>
DiffersWord == <<"$", "v", " ", "!", "=", " ", "a">>
\* $v = 'a b'
EqualsQuoted == <<"$", "v", " ", "=", " ", "'", "a", " ", "b", "'">>
\* $v = '', $v != ''
EqualsEmpty == <<"$", "v", " ", "=", " ", "'", "'">>
DiffersEmpty == <<"$", "v", " ", "!", "=", " ", "'", "'">>

Exprs == {ExprV, EqualsWord, DiffersWord, EqualsQuoted, EqualsEmpty, DiffersEmpty}
ExprPieces == {Flatten(<<IfD(e), <<"1">>, EndifD>>) : e \in Exprs}
ExprDocuments == {Flatten(d) : d \in SeqsUpTo(ExprPieces, MaxExprs)}
ExprContexts ==
    {{}, {<<<<"v">>, Str(<<"a">>)>>}, {<<<<"v">>, Str(<<>>)>>}, {<<<<"v">>, None>>},
     {<<<<"v">>, Str(<<"a", " ", "b">>)>>}}

InitExpr == InitWith(ExprDocuments \cup TourDocuments, ExprContexts)
SpecExpr == InitExpr /\ [][Next]_vars

(***************************************************************************)
(* Invocations: at most MaxInvoke blocks b, bb, ..., each with a body that *)
(* is empty, a text, an echo of one of the blocks or an include with the   *)
(* stub b, then one echo or include that starts a chain of invocations.    *)
(* root.evaluate runs in one thread: a step of it that can be taken is     *)
(* taken (weak fairness on Render).                                        *)
(***************************************************************************)
MaxInvoke == 2

\* the name of the i-th block: b, bb, ...
InvokeName(i) == [k \in 1..i |-> "b"]
StubD(name) == IncludeD(Sp \o Attribute(K_file, <<"f">>) \o Sp \o Attribute(K_stub, name))
Invokers == {EchoD(InvokeName(i)) : i \in 1..MaxInvoke} \cup {StubD(InvokeName(1))}
InvokeBody == {<<>>, <<"1">>} \cup Invokers
\* the first n blocks, with every choice of bodies
RECURSIVE InvokeBlocks(_)
InvokeBlocks(n) ==
    IF n = 0 THEN {<<>>}
    ELSE {Flatten(<<before, BlockD(InvokeName(n)), body, EndblockD>>) :
             before \in InvokeBlocks(n - 1), body \in InvokeBody}
InvokeDocuments ==
    {blocks \o tail : blocks \in UNION {InvokeBlocks(n) : n \in 1..MaxInvoke},
                      tail \in Invokers}

InitInvoke == InitWith(InvokeDocuments \cup TourDocuments, {{}})
SpecInvoke == InitInvoke /\ [][Next]_vars /\ WF_vars(Render)

(***************************************************************************)
(* Set and config: at most MaxFrame directives, each a set (of a literal,  *)
(* of a text that looks like a variable), a config (of one key, of two) or *)
(* an echo, against a context with or without the keys they name           *)
(***************************************************************************)
MaxFrame == 3

\* <!--# config x="2" y="3" -->
ConfigTwoD ==
    Directive(V_config \o Sp \o Attribute(<<"x">>, <<"2">>) \o Sp \o Attribute(<<"y">>, <<"3">>))
FramePieces ==
    {SetD(<<"x">>, <<"$", "y">>), SetD(<<"y">>, <<"1">>), ConfigD(K_errmsg, <<"e">>),
     ConfigTwoD, EchoD(<<"x">>), EchoD(<<"y">>), EchoD(<<"z">>)}
FrameDocuments == {Flatten(d) : d \in SeqsUpTo(FramePieces, MaxFrame)}
FrameContexts == {{}, {<<<<"y">>, Str(<<"0">>)>>, <<<<"k">>, Str(<<"9">>)>>}}

InitFrame == InitWith(FrameDocuments \cup TourDocuments, FrameContexts)
SpecFrame == InitFrame /\ [][Next]_vars

(***************************************************************************)
(* Stray end tags: at most MaxStray pieces, each an else, an endif or an   *)
(* endblock that no if or block precedes, a text, an echo or a set         *)
(***************************************************************************)
MaxStray == 3

StrayPieces == {ElseD, EndifD, EndblockD, <<"1">>, EchoD(<<"x">>), SetD(<<"x">>, <<"2">>)}
StrayDocuments == {Flatten(d) : d \in SeqsUpTo(StrayPieces, MaxStray)}
StrayContexts == {{}, {<<<<"x">>, Str(<<"0">>)>>}}

InitStray == InitWith(StrayDocuments \cup TourDocuments, StrayContexts)
SpecStray == InitStray /\ [][Next]_vars

(***************************************************************************)
(* Reading the log                                                         *)
(***************************************************************************)
Events == 1..Len(log)
Cls(k) == nodes[log[k].n].cls
\* the evaluations of nodes (the render event, log[1], is the call of root.evaluate)
Evaluations == {k \in Events : log[k].op = "evaluate"}
\* the event of the call under which evaluation k runs: the latest earlier call made one
\* level of evaluate_tokens above it
Invoker(k) ==
    Max({j \in 1..(k - 1) : log[j].kind = "call" /\ log[j].op \in {"evaluate", "render"}
                            /\ log[j].depth = log[k].depth - 1})
\* the blocks that hold node c as a child
ParentBlocks(c) ==
    {b \in 1..Len(nodes) : nodes[b].cls = "Block"
                           /\ \E i \in 1..Len(nodes[b].children) : nodes[b].children[i] = c}
Seed == log[1].ctx

\* <!--# block name="b" --><!--# echo var="x" --><!--# endblock -->
\* <!--# echo var="b" --><!--# set var="x" value="1" --><!--# echo var="b" -->
TwoEchoes ==
    Flatten(<<BlockD(<<"b">>), EchoD(<<"x">>), EndblockD,
              EchoD(<<"b">>), SetD(<<"x">>, <<"1">>), EchoD(<<"b">>)>>)

\* C1: evaluating a Block emits nothing and only binds context[name] to the deferred
\* callable; a child of a block is evaluated only under an echo or an include stub that
\* looked that block up, every such invocation evaluates the children again, against the
\* context as it is at the invocation, so that two echoes of a block that echoes x,
\* separated by a set of x, give two different fragments; a block never invoked never
\* evaluates its children.
C1_BlockIsLazy ==
    /\ \A k \in Evaluations :
        /\ (Cls(k) = "Block" /\ log[k].kind # "raise") =>
              /\ log[k].kind = "value"
              /\ ~IsTrue(log[k].frag)
              /\ log[k].after =
                    Put(log[k].ctx, Get(nodes[log[k].n].attributes.d, K_name).s,
                        BlockValue(log[k].n))
        /\ \A b \in ParentBlocks(log[k].n) :
              /\ log[Invoker(k)].op = "evaluate"
              /\ Cls(Invoker(k)) \in {"Echo", "Include"}
              /\ \E r \in log[Invoker(k)].reads : r[2] = BlockValue(b)
        /\ \A r \in log[k].reads :
              (log[k].kind = "call" /\ r[2].t = "block" /\ k < Len(log)
               /\ nodes[r[2].n].children # <<>>) =>
                  /\ log[k + 1].op = "evaluate"
                  /\ log[k + 1].n = nodes[r[2].n].children[1]
                  /\ log[k + 1].ctx = log[k].after
    /\ (phase = "done" /\ text = TwoEchoes) =>
          output = (IF <<"x">> \in Keys(Seed) THEN Get(Seed, <<"x">>).s ELSE ErrorMessage)
                   \o <<"1">>

\* C1 witness: the block that echoes x was echoed before and after set x, and the render
\* returned the seeded value of x followed by the value set
C1_Witness ==
    /\ phase = "done"
    /\ text = TwoEchoes
    /\ Seed = {<<<<"x">>, Str(<<"0">>)>>}
    /\ output = <<"0", "1">>
    /\ Cardinality({k \in Evaluations : Cls(k) = "Echo" /\ ParentBlocks(log[k].n) # {}}) = 2

\* the value the latest write to key before event k stored, the caller's if there is none
LastWrite(k, key) ==
    LET ws == {j \in 2..(k - 1) : key \in Keys(log[j].writes)}
    IN IF ws = {} THEN Lookup(Seed, key) ELSE Get(log[Max(ws)].writes, key)

HasAttribute(n, key) == nodes[n].attributes.t = "dict" /\ key \in Keys(nodes[n].attributes.d)
AttributeOf(n, key) == Get(nodes[n].attributes.d, key)

\* C3: within one render every read of a context key (by echo, by an if expression, by
\* an include stub) sees the value of the latest write to that key among the directives
\* evaluated before it (set, config, include with set, regex capture, block), the caller's
\* value if there is none; so an echo evaluated before any write of its variable, which
\* the caller did not seed, takes the missing-variable path.
C3_ReadsSeeLatestWrite ==
    /\ \A k \in Events : \A r \in log[k].reads : r[2] = LastWrite(k, r[1])
    /\ \A k \in Evaluations :
          (/\ Cls(k) = "Echo"
           /\ HasAttribute(log[k].n, K_var)
           /\ LastWrite(k, AttributeOf(log[k].n, K_var).s) = Missing) =>
              /\ log[k].kind = "value"
              /\ log[k].frag =
                    IF HasAttribute(log[k].n, K_default)
                    THEN AttributeOf(log[k].n, K_default)
                    ELSE IF LastWrite(k, K_errmsg) # Missing THEN LastWrite(k, K_errmsg)
                    ELSE Str(ErrorMessage)

\* C3 witness: an echo of x took the missing-variable path and a later echo of x
\* returned what the regex capture between them stored
C3_Witness ==
    \E k1, k2 \in Evaluations :
        /\ k1 < k2
        /\ Cls(k1) = "Echo" /\ <<<<"x">>, Missing>> \in log[k1].reads
        /\ log[k1].frag = Str(ErrorMessage)
        /\ Cls(k2) = "Echo" /\ <<<<"x">>, Str(<<"v">>)>> \in log[k2].reads
        /\ log[k2].frag = Str(<<"v">>)

\* the evaluation of the echo that event k, the echo's except clause, belongs to
EchoEvaluation(k) == Max({j \in 1..(k - 1) : log[j].op = "evaluate" /\ log[j].n = log[k].n})

\* C4: an echo never fails for a missing variable: when var is a key of the context the
\* fragment is its value, or the result of invoking it when it is callable; otherwise
\* the fragment is the default attribute, else context['errmsg'], else the fixed
\* message, and the context is left unchanged.
C4_EchoFragment ==
    \A k \in Events :
        /\ (log[k].op = "evaluate" /\ Cls(k) = "Echo" /\ HasAttribute(log[k].n, K_var)) =>
              LET var == AttributeOf(log[k].n, K_var).s
                  ctx == log[k].ctx
              IN IF var \in Keys(ctx)
                 THEN IF Get(ctx, var).t = "block" THEN log[k].kind = "call"
                      ELSE log[k].kind = "value" /\ log[k].frag = Get(ctx, var)
                 ELSE /\ log[k].kind = "value"
                      /\ log[k].after = ctx
                      /\ log[k].frag =
                            IF HasAttribute(log[k].n, K_default)
                            THEN AttributeOf(log[k].n, K_default)
                            ELSE IF K_errmsg \in Keys(ctx) THEN Get(ctx, K_errmsg)
                            ELSE Str(ErrorMessage)
        /\ log[k].op = "except" =>
              AttributeOf(log[k].n, K_var).s \notin Keys(log[EchoEvaluation(k)].ctx)


(***************************************************************************)
(* Chains of conditionals, read from the tokens lexemize yielded           *)
(***************************************************************************)
TokenName(i) == emitted[i].token.name
Tokens == 1..Len(emitted)
\* the node build_ast made from token i
NodeOf(i) == CHOOSE n \in 1..Len(nodes) : nodes[n].tok = i
HasNode(i) == \E n \in 1..Len(nodes) : nodes[n].tok = i
EvaluatedNode(n) == \E k \in Evaluations : log[k].n = n
Count(name, upto) == Cardinality({t \in 1..upto : TokenName(t) = name})
\* an if at token i, at the top level of the document, closed by the endif at token j
\* with no other if between them
Chain(i, j) ==
    /\ i < j
    /\ TokenName(i) = T_IF
    /\ TokenName(j) = T_ENDIF
    /\ Count(T_IF, i - 1) = Count(T_ENDIF, i - 1)
    /\ \A t \in (i + 1)..(j - 1) : TokenName(t) \notin {T_IF, T_ENDIF}
Heads(i, j) == {h \in i..(j - 1) : TokenName(h) \in {T_IF, T_ELIF, T_ELSE}}
BranchBody(i, j, h) ==
    {t \in (h + 1)..(j - 1) : \A g \in Heads(i, j) : ~(h < g /\ g <= t)}
ExprOf(h) == ExpressionParser_parse(Get(emitted[h].token.attributes.d, K_expr).s)
WellFormed(i, j) ==
    \A h \in Heads(i, j) :
        TokenName(h) # T_ELSE =>
            /\ K_expr \in Keys(emitted[h].token.attributes.d)
            /\ ExprOf(h).ok
Holds(h, ctx) ==
    TokenName(h) = T_ELSE \/ Expression_evaluate(ExprOf(h), ctx).result
Selected(i, j, ctx) ==
    {h \in Heads(i, j) : Holds(h, ctx) /\ \A g \in Heads(i, j) : g < h => ~Holds(g, ctx)}

\* C2: when a render returns, of every well-formed chain of the document the body of the
\* first branch whose condition is true (the else branch if none is) has been evaluated,
\* the body of no other branch has, and no condition after the first true one has: one
\* body at most, exactly one when the chain has an else
C2_OneBranch ==
    phase = "done" =>
        \A i, j \in Tokens :
            Chain(i, j) /\ WellFormed(i, j) =>
                /\ \A h \in Heads(i, j) : \A t \in BranchBody(i, j, h) :
                       (HasNode(t) /\ EvaluatedNode(NodeOf(t))) <=> h \in Selected(i, j, Seed)
                /\ \A h, g \in Heads(i, j) :
                       g \in Selected(i, j, Seed) /\ g < h /\ TokenName(h) = T_ELIF =>
                           ~EvaluatedNode(NodeOf(h))
                /\ (\E h \in Heads(i, j) : TokenName(h) = T_ELSE) =>
                       Cardinality({h \in Heads(i, j) : \E t \in BranchBody(i, j, h) :
                                       HasNode(t) /\ EvaluatedNode(NodeOf(t))}) = 1


(***************************************************************************)
(* Scopes left open, and what makes parse fail                             *)
(***************************************************************************)
\* the scope-opening directives among tokens 1..k that no end tag has closed
RECURSIVE OpenAfter(_)
OpenAfter(k) ==
    IF k = 0 THEN 0
    ELSE IF TokenName(k) \in {T_IF, T_BLOCK} THEN OpenAfter(k - 1) + 1
    ELSE IF TokenName(k) \in {T_ENDIF, T_ENDBLOCK} /\ OpenAfter(k - 1) > 0
         THEN OpenAfter(k - 1) - 1
    ELSE OpenAfter(k - 1)
UnclosedScope == OpenAfter(Len(emitted)) > 0
\* the last scope-opening token when no end tag follows it
LastOpener == Max({i \in Tokens : TokenName(i) \in {T_IF, T_BLOCK}})
ParseFailed == phase = "raised" /\ log = <<>>
\* the directive body the lexer stands at, after a start delimiter
BodyAtPos == SubSeq(text, pos, Index(text, EndDelimiter, pos) - 1)
AtUnclosedDelimiter == half = "end" /\ Index(text, EndDelimiter, pos) = 0

\* C6, as stated: once every token of a document that leaves a scope open has been
\* read, parse has failed with 'End marker not found': no tree, no rendered text
C6_UnclosedScopeRaises ==
    (UnclosedScope /\ phase # "parse" /\ half = "break") =>
        (phase = "raised" /\ error = "End marker not found")

\* C6, amended: an unclosed scope does not make parse fail.  parse fails only at a
\* start delimiter no end delimiter follows ('End marker not found'), at a directive
\* whose attribute text is outside the grammar, or at an unknown verb; otherwise it
\* returns a tree in which no node made after the last unclosed opener is a child of the
\* head, and a render of <!--# if expr="$a" -->1 returns 1 when a is a key, '' otherwise
C6_UnclosedScopeParses ==
    /\ error = "End marker not found" => (ParseFailed /\ AtUnclosedDelimiter)
    /\ ParseFailed =>
           \/ error = "End marker not found" /\ AtUnclosedDelimiter
           \/ error = "ParseException" /\ half = "end" /\ ~tokenize(BodyAtPos).ok
           \/ error = "KeyError" /\ token_factory(TokenName(Len(emitted))) = "KeyError"
    /\ (UnclosedScope /\ half = "break" /\ phase # "parse") =>
           /\ phase \in {"parsed", "eval", "done"} \/ ~ParseFailed
           /\ \A t \in Tokens :
                  (/\ t > LastOpener
                   /\ \A u \in Tokens :
                          u > LastOpener => TokenName(u) \notin {T_ENDIF, T_ENDBLOCK}) =>
                      /\ HasNode(t)
                      /\ \A c \in 1..Len(nodes[1].children) : nodes[1].children[c] # NodeOf(t)
    /\ (phase = "done" /\ text = IfUnclosed) =>
           output = (IF <<"a">> \in Keys(Seed) THEN <<"1">> ELSE <<>>)

C6_Witness == phase = "done" /\ text = IfUnclosed /\ UnclosedScope /\ output = <<"1">>

(***************************************************************************)
(* Grammar errors                                                          *)
(***************************************************************************)
\* the if and elif nodes whose expr is outside the expression grammar
BadExprNodes ==
    {n \in 1..Len(nodes) :
        /\ nodes[n].cls \in {"If", "Elif"}
        /\ K_expr \in Keys(nodes[n].attributes.d)
        /\ ~ExpressionParser_parse(Get(nodes[n].attributes.d, K_expr).s).ok}

\* C7, as stated: parse fails on every document with an if or elif whose expr is
\* outside the grammar, so none is ever parsed, evaluated or rendered
C7_GrammarErrorsAtParse ==
    phase \in {"parsed", "eval", "done"} => BadExprNodes = {}

\* C7, amended: parse raises the grammar error of an attribute text; the grammar error
\* of an expr is raised by the evaluation of its if or elif node, which ends the render
\* with no output, and a render that returns has evaluated no such node
C7_ExprErrorsAtEvaluate ==
    /\ (ParseFailed /\ error = "ParseException") => (half = "end" /\ ~tokenize(BodyAtPos).ok)
    /\ \A k \in Evaluations :
           log[k].n \in BadExprNodes =>
               /\ log[k].kind = "raise" /\ log[k].exc = "ParseException"
               /\ log[k].after = log[k].ctx
               /\ k = Len(log)
               /\ phase = "raised" /\ error = "ParseException" /\ output = <<>>
    /\ (phase = "raised" /\ error = "ParseException" /\ ~ParseFailed) =>
           (log[Len(log)].op = "evaluate" /\ log[Len(log)].n \in BadExprNodes)
    /\ phase = "done" => \A n \in BadExprNodes : ~EvaluatedNode(n)

C7_Witness ==
    /\ phase = "done"
    /\ text = ElifBadExpr
    /\ BadExprNodes # {}
    /\ output = <<"1">>


(***************************************************************************)
(* Includes                                                                *)
(***************************************************************************)
IncludeEvents == {k \in Evaluations : Cls(k) = "Include"}
\* the attribute is given a value that is not ""
NonEmpty(n, key) == HasAttribute(n, key) /\ AttributeOf(n, key).s # <<>>
\* no event between k and j stores the key
Unwritten(k, j, key) == \A i \in (k + 1)..(j - 1) : key \notin Keys(log[i].writes)

\* what an include that has fetched its content does with it, Given(n, key) telling
\* whether node n has the attribute key
IncludeContract(k, Given(_, _)) ==
    LET e == log[k]
        n == e.n
        content == e.fetch.content
        stub == AttributeOf(n, K_stub).s
        v == Lookup(e.ctx, stub)
    IN (e.fetch.by # "" /\ e.fetch.ok) =>
          IF Given(n, K_set)
          THEN /\ e.kind = "value" /\ e.frag = None
               /\ e.after = Put(e.ctx, AttributeOf(n, K_set).s, Str(content))
          ELSE IF content = <<>> /\ Given(n, K_stub)
          THEN /\ e.after = e.ctx
               /\ e.reads = {<<stub, v>>}
               /\ CASE v = Missing -> e.kind = "raise" /\ e.exc = "KeyError"
                    [] v.t = "block" ->
                         /\ e.kind = "call"
                         /\ \A j \in Evaluations :
                                (j > k /\ Invoker(j) = k) =>
                                    \E c \in 1..Len(nodes[v.n].children) :
                                        nodes[v.n].children[c] = log[j].n
                    [] OTHER -> e.kind = "value" /\ e.frag = v
          ELSE e.kind = "value" /\ e.frag = Str(content) /\ e.after = e.ctx
\* a later echo of the set name returns the content the include stored
SetThenEcho(k, Given(_, _)) ==
    \A j \in Evaluations :
        (/\ k < j
         /\ log[k].fetch.by # "" /\ log[k].fetch.ok
         /\ Given(log[k].n, K_set)
         /\ Cls(j) = "Echo"
         /\ HasAttribute(log[j].n, K_var)
         /\ AttributeOf(log[j].n, K_var).s = AttributeOf(log[k].n, K_set).s
         /\ Unwritten(k, j, AttributeOf(log[k].n, K_set).s)) =>
            log[j].kind = "value" /\ log[j].frag = Str(log[k].fetch.content)

\* C5, as stated: an include that has fetched its content stores it under set and emits
\* nothing when the set attribute is present; otherwise emits the resolution of
\* context[stub] when the content is empty and the stub attribute is present; otherwise
\* emits the content; and a later echo of the set name returns the content
C5_IncludePresent ==
    \A k \in IncludeEvents :
        IncludeContract(k, HasAttribute) /\ SetThenEcho(k, HasAttribute)

\* C5, amended: the same with "present" read as "present and not empty": set="" and
\* stub="" are treated as if the attribute were left out
C5_IncludeNonEmpty ==
    \A k \in IncludeEvents :
        IncludeContract(k, NonEmpty) /\ SetThenEcho(k, NonEmpty)

\* an include stored the content f under x and emitted nothing, the echo of x after it
\* returned f, and f is the whole output
C5_Witness ==
    /\ phase = "done"
    /\ output = <<"f">>
    /\ \E k \in IncludeEvents : \E j \in Evaluations :
          /\ k < j /\ Cls(j) = "Echo"
          /\ NonEmpty(log[k].n, K_set)
          /\ log[k].fetch.content = <<"f">>
          /\ log[k].frag = None
          /\ log[j].frag = Str(<<"f">>)

\* node n's file and virtual attributes are both given, or neither is
Misdeclared(n, Given(_, _)) ==
    \/ Given(n, K_file) /\ Given(n, K_virtual)
    \/ ~Given(n, K_file) /\ ~Given(n, K_virtual)
\* evaluation k raised without a collaborator called or the context changed, and the
\* exception left the render
RaisedOut(k) ==
    /\ log[k].kind = "raise"
    /\ log[k].exc \in {"Exception", "AttributeError"}
    /\ log[k].fetch = NoFetch
    /\ log[k].after = log[k].ctx /\ log[k].writes = {}
    /\ k = Len(log)
    /\ context = log[k].ctx
    /\ phase = "raised" /\ error = log[k].exc /\ output = <<>>

\* C9, as stated: an include in which file and virtual are both present, or both
\* absent, raises before any collaborator is called, leaves the context as it was, and
\* the exception is caught nowhere: the render ends with no output
C9_BothOrNeitherPresent ==
    \A k \in IncludeEvents : Misdeclared(log[k].n, HasAttribute) => RaisedOut(k)

\* C9, amended: the same with an attribute given as "" counted as not declared; an
\* include with exactly one of file and virtual not empty calls that collaborator
C9_BothOrNeitherNonEmpty ==
    \A k \in IncludeEvents :
        /\ Misdeclared(log[k].n, NonEmpty) => RaisedOut(k)
        /\ ~Misdeclared(log[k].n, NonEmpty) =>
               log[k].fetch.by = (IF NonEmpty(log[k].n, K_virtual) THEN "virtual" ELSE "file")

\* an include with both file and virtual raised inside a block that an echo had
\* invoked, with set given and the context left as it was
C9_Witness ==
    /\ phase = "raised" /\ error = "Exception"
    /\ \E k \in IncludeEvents :
          /\ k = Len(log)
          /\ NonEmpty(log[k].n, K_file) /\ NonEmpty(log[k].n, K_virtual)
          /\ NonEmpty(log[k].n, K_set)
          /\ Cls(Invoker(k)) = "Echo"
          /\ log[Invoker(k)].kind = "call"


(***************************************************************************)
(* Regex expressions                                                       *)
(***************************************************************************)
ExprOfNode(n) == ExpressionParser_parse(AttributeOf(n, K_expr).s)
\* the evaluations of an if or elif whose expr is a regex test
RegexEvents ==
    {k \in Evaluations :
        /\ Cls(k) \in {"If", "Elif"}
        /\ HasAttribute(log[k].n, K_expr)
        /\ ExprOfNode(log[k].n).ok
        /\ Truthy(ExprOfNode(log[k].n).regexp)
        /\ log[k].kind # "raise"}
Pattern(k) == RegexItems(ExprOfNode(log[k].n).regexp.s, 1, <<>>).items
\* re.match of the pattern against the variable's value at evaluation k ('' if absent)
MatchAt(k) ==
    LET variable == ExprOfNode(log[k].n).variable.s
    IN MatchItems(Pattern(k), 1,
                  IF variable \in Keys(log[k].ctx) THEN Get(log[k].ctx, variable).s ELSE <<>>,
                  1, {})
\* the comparison's result: = is true on a match, != when there is none
ResultAt(k) ==
    IF ExprOfNode(log[k].n).operator.s = <<"=">> THEN MatchAt(k).ok ELSE ~MatchAt(k).ok
Captured(k) == groupdict(Pattern(k), MatchAt(k).groups)
IsChild(n, c) == \E i \in 1..Len(nodes[n].children) : nodes[n].children[i] = c

\* C8: the evaluation of $v op /re/ leaves the context as it was when the result is
\* false and merges the named groups of the match into it when the result is true (no
\* match, nothing to merge, when != is true); the if's own children are evaluated exactly
\* when the result is true; and every later read of a merged key, by any directive of the
\* same render, sees the captured value until another directive stores the key
C8_RegexInjection ==
    \A k \in RegexEvents :
        /\ ~ResultAt(k) => log[k].after = log[k].ctx
        /\ ResultAt(k) =>
               log[k].after = (IF MatchAt(k).ok THEN Update(log[k].ctx, Captured(k))
                               ELSE log[k].ctx)
        /\ \A j \in Evaluations :
               (j > k /\ Invoker(j) = k) => (IsChild(log[k].n, log[j].n) <=> ResultAt(k))
        /\ (ResultAt(k) /\ MatchAt(k).ok) =>
               \A j \in Events : \A r \in log[j].reads :
                   (j > k /\ r[1] \in Keys(Captured(k)) /\ Unwritten(k, j, r[1])) =>
                       r[2] = Get(Captured(k), r[1])

\* $v = /(?P<x>a)(?P<y>b)?/ matched ab where x was 0: the echo inside the if and the
\* echo after it both returned the captured a; and $v != /(?P<x>a)/, false on the same
\* value, left the context as it was
C8_Witness ==
    /\ phase = "done"
    /\ Lookup(Seed, <<"x">>) = Str(<<"0">>)
    /\ \E k \in RegexEvents : \E i, j \in Evaluations :
          /\ k < i /\ i < j
          /\ ResultAt(k) /\ Get(Captured(k), <<"x">>) = Str(<<"a">>)
          /\ Invoker(i) = k /\ Cls(i) = "Echo" /\ log[i].frag = Str(<<"a">>)
          /\ Cls(j) = "Echo" /\ log[j].depth = 1 /\ log[j].frag = Str(<<"a">>)
    /\ \E k \in RegexEvents :
          /\ ~ResultAt(k) /\ MatchAt(k).ok
          /\ log[k].after = log[k].ctx


(***************************************************************************)
(* The lexer                                                               *)
(***************************************************************************)
StartsAt(p) ==
    /\ p + Len(StartDelimiter) - 1 <= Len(text)
    /\ SubSeq(text, p, p + Len(StartDelimiter) - 1) = StartDelimiter
\* some start delimiter of the text has no end delimiter after it
UnclosedDelimiter ==
    \E p \in 1..Len(text) :
        StartsAt(p) /\ Index(text, EndDelimiter, p + Len(StartDelimiter)) = 0
\* the piece of the text token i was made from
SpanEnd(i) ==
    IF TokenName(i) = TEXT THEN emitted[i].at + Len(emitted[i].token.attributes.s) - 1
    ELSE Index(text, EndDelimiter, emitted[i].at) - 1

\* C10, as stated: on a text with a start delimiter that no end delimiter follows,
\* parse fails with 'End marker not found', whatever came before that delimiter
C10_EndMarkerNotFound ==
    (UnclosedDelimiter /\ phase # "parse") =>
        (phase = "raised" /\ error = "End marker not found")

\* C10, amended: on such a text parse returns no tree; it fails with 'End marker not
\* found' unless a directive before that delimiter already made it fail (an attribute
\* text outside the grammar, an unknown verb), and 'End marker not found' is raised on no
\* other text.  On every text the tokens yielded are in document order, a TEXT token is
\* the non-empty text up to the next start delimiter, a directive token is tokenize of
\* the body between a start delimiter and the next end delimiter; and when parse returns
\* the lexer has reached the end of the text
C10_Lexer ==
    /\ UnclosedDelimiter =>
           /\ phase \in {"parse", "raised"} /\ log = <<>>
           /\ phase = "raised" =>
                  \/ error = "End marker not found" /\ AtUnclosedDelimiter
                  \/ error = "ParseException" /\ half = "end" /\ ~tokenize(BodyAtPos).ok
                  \/ error = "KeyError" /\ token_factory(TokenName(Len(emitted))) = "KeyError"
    /\ error = "End marker not found" => (UnclosedDelimiter /\ ParseFailed)
    /\ \A i \in Tokens :
           /\ emitted[i].at \in 1..Len(text)
           /\ i > 1 => SpanEnd(i - 1) < emitted[i].at
           /\ IF TokenName(i) = TEXT
              THEN /\ emitted[i].token.attributes.s # <<>>
                   /\ emitted[i].token.attributes.s = SubSeq(text, emitted[i].at, SpanEnd(i))
                   /\ StartsAt(SpanEnd(i) + 1) \/ SpanEnd(i) = Len(text)
                   /\ \A p \in emitted[i].at..SpanEnd(i) : ~StartsAt(p)
              ELSE /\ StartsAt(emitted[i].at - Len(StartDelimiter))
                   /\ SpanEnd(i) >= emitted[i].at
                   /\ tokenize(SubSeq(text, emitted[i].at, SpanEnd(i))).ok
                   /\ emitted[i].token = tokenize(SubSeq(text, emitted[i].at, SpanEnd(i))).token
    /\ phase \in {"parsed", "eval", "done"} => (half = "break" /\ ~UnclosedDelimiter)

\* a TEXT, a directive and a TEXT were yielded before the start delimiter that no end
\* delimiter follows, and parse failed with 'End marker not found'
C10_Witness ==
    /\ ParseFailed /\ error = "End marker not found"
    /\ Len(emitted) = 3
    /\ TokenName(1) = TEXT /\ TokenName(2) = T_ECHO /\ TokenName(3) = TEXT
    /\ Len(nodes) = 4


(***************************************************************************)
(* Documents without a directive                                           *)
(***************************************************************************)
NoStartDelimiter == Index(text, StartDelimiter, 1) = 0

\* C11: on a document with no start delimiter (the empty document included), whatever
\* the context, parse does not fail and yields the whole text as one TEXT token (no token
\* for the empty document), the render returns the text unchanged, and no step of it
\* changes the context
C11_PlainTextRoundTrip ==
    NoStartDelimiter =>
        /\ phase # "raised" /\ error = ""
        /\ phase \in {"parsed", "eval", "done"} =>
               /\ Len(emitted) = (IF text = <<>> THEN 0 ELSE 1)
               /\ \A i \in Tokens : emitted[i].token = Token(TEXT, TextAttributes(text))
        /\ \A k \in Events : log[k].after = log[k].ctx /\ log[k].writes = {}
        /\ log # <<>> => context = Seed
        /\ phase = "done" => output = text

\* a text with an end delimiter, the start of a comment and whitespace at both ends was
\* rendered unchanged against a context of two keys
C11_Witness ==
    /\ phase = "done"
    /\ NoStartDelimiter
    /\ text = <<" ", "<", "!", "-", "-", "-", "-", ">", "\n">>
    /\ output = text
    /\ Cardinality(Seed) = 2 /\ context = Seed

(***************************************************************************)
(* Scopes closed by their end tags                                         *)
(***************************************************************************)
\* the nodes whose call of inner is active
OpenNodes == {scope[k] : k \in 1..Len(scope)}
\* token t stands outside every if and block of the document
TopLevel(t) == OpenAfter(t) = 0
\* the chain from the if at token i to the endif at token j has an elif or an else
Branching(i, j) == \E h \in Heads(i, j) : TokenName(h) \in {T_ELIF, T_ELSE}

\* C12: once build_ast has taken the ENDIF of a chain with an elif or an else, no node
\* of the chain is still open (the If closed on the ELIF or ELSE, the Elif or Else on the
\* ENDIF), every token after it that stands outside every if and block is made a child
\* of the head, and a render that returns has evaluated every such text
C12_ScopesClose ==
    \A i, j \in Tokens :
        (Chain(i, j) /\ Branching(i, j)) =>
            /\ \A h \in Heads(i, j) : HasNode(h) /\ HasNode(j) => NodeOf(h) \notin OpenNodes
            /\ \A t \in Tokens :
                   (t > j /\ TopLevel(t) /\ TokenName(t) = TEXT /\ HasNode(t)) =>
                       /\ IsChild(1, NodeOf(t))
                       /\ phase = "done" => EvaluatedNode(NodeOf(t))

(***************************************************************************)
(* Comparisons and existence tests                                         *)
(***************************************************************************)
\* the evaluations of an if or elif whose expr is in the grammar and has no regexp
PlainEvents ==
    {k \in Evaluations :
        /\ Cls(k) \in {"If", "Elif"}
        /\ HasAttribute(log[k].n, K_expr)
        /\ ExprOfNode(log[k].n).ok
        /\ ~ExprOfNode(log[k].n).regexp.has}
\* context.get(v)
ContextGet(ctx, v) == IF v \in Keys(ctx) THEN Get(ctx, v) ELSE None
\* the result the parsed form fixes: the comparison when a text was parsed, the
\* existence test otherwise
ResultOfForm(k) ==
    LET e == ExprOfNode(log[k].n)
        value == ContextGet(log[k].ctx, e.variable.s)
    IN IF e.text.has
       THEN IF e.operator.s = <<"=">> THEN value = Str(e.text.s) ELSE value # Str(e.text.s)
       ELSE e.variable.s \in Keys(log[k].ctx)
\* evaluation k took the if's own children: the result of its expression was true
TookChildren(k) == log[k].kind = "call" /\ log[k].toks = nodes[log[k].n].children

\* C13: the evaluation of an if on $v op text (text any text the grammar accepts, ''
\* included) takes the if's children exactly when context.get(v) = text for op "=",
\* when it differs for op "!="; on $v alone exactly when v is a key of the context; it
\* never raises and leaves the context as it was
C13_ResultOfParsedForm ==
    \A k \in PlainEvents :
        /\ log[k].kind # "raise"
        /\ log[k].after = log[k].ctx /\ log[k].writes = {}
        /\ nodes[log[k].n].children # <<>> => (TookChildren(k) <=> ResultOfForm(k))

(***************************************************************************)
(* Termination                                                             *)
(***************************************************************************)
Terminated == phase \in {"done", "raised"}
\* the evaluations that invoked a block: an echo or an include stub that called the
\* children of the block it looked up
Invocations ==
    {k \in Evaluations : log[k].kind = "call" /\ Cls(k) \in {"Echo", "Include"}}

Fallback(n, ctx) ==
    IF HasAttribute(n, K_default) THEN AttributeOf(n, K_default)
    ELSE IF K_errmsg \in Keys(ctx) THEN Get(ctx, K_errmsg)
    ELSE Str(ErrorMessage)

\* C15: an echo returns its fallback only when its var is not a key of the context at
\* the moment the echo is evaluated; an evaluation that raises, under a block an echo
\* invoked or anywhere else, ends the render with that exception and no output: no echo
\* turns it into its fallback
C15_FailuresPropagate ==
    /\ \A k \in Evaluations :
           /\ (Cls(k) = "Echo" /\ HasAttribute(log[k].n, K_var) /\ log[k].kind = "value") =>
                  log[k].frag = (IF AttributeOf(log[k].n, K_var).s \in Keys(log[k].ctx)
                                 THEN Get(log[k].ctx, AttributeOf(log[k].n, K_var).s)
                                 ELSE Fallback(log[k].n, log[k].ctx))
           /\ log[k].kind = "raise" =>
                  /\ k = Len(log)
                  /\ phase = "raised" /\ error = log[k].exc /\ output = <<>>
    /\ \A k \in Events : log[k].op # "except"

(***************************************************************************)
(* Named groups that took no part in the match                             *)
(***************************************************************************)
\* the named groups of the pattern of evaluation k that the match left unmatched
UnmatchedGroups(k) == Keys(Captured(k)) \ Keys(MatchAt(k).groups)

\* C16: when a regex comparison is true on a match, a named group that took no part in
\* the match leaves its key as it was: a value stored under it stays, an absent key stays
\* absent or becomes the empty string, and a later echo of the name, no directive having
\* stored it in between, returns what it would have returned before the match
C16_UnmatchedGroupsKeep ==
    \A k \in RegexEvents :
        (ResultAt(k) /\ MatchAt(k).ok) =>
            \A name \in UnmatchedGroups(k) :
                /\ name \in Keys(log[k].ctx) =>
                       Lookup(log[k].after, name) = Lookup(log[k].ctx, name)
                /\ name \notin Keys(log[k].ctx) =>
                       Lookup(log[k].after, name) \in {Missing, Str(<<>>)}
                /\ \A j \in Evaluations :
                       (/\ j > k /\ Cls(j) = "Echo"
                        /\ HasAttribute(log[j].n, K_var)
                        /\ AttributeOf(log[j].n, K_var).s = name
                        /\ Unwritten(k, j, name)) =>
                           /\ log[j].kind = "value"
                           /\ log[j].frag = (IF name \in Keys(log[k].ctx)
                                             THEN Get(log[k].ctx, name)
                                             ELSE Fallback(log[j].n, log[j].ctx))

(***************************************************************************)
(* What set and config change                                              *)
(***************************************************************************)
\* the evaluations of a set or a config that returned
StoreEvents == {k \in Evaluations : Cls(k) \in {"Set", "Config"} /\ log[k].kind # "raise"}
\* the pairs the directive of evaluation k names: var and value for a set, every
\* attribute for a config
Named(k) ==
    IF Cls(k) = "Set"
    THEN {<<AttributeOf(log[k].n, K_var).s, AttributeOf(log[k].n, K_value)>>}
    ELSE nodes[log[k].n].attributes.d
\* the fragments of the evaluations 1..k, in order, those of the classes left out
RECURSIVE FragmentsBut(_, _)
FragmentsBut(k, classes) ==
    IF k = 0 THEN <<>>
    ELSE IF log[k].op = "evaluate" /\ Cls(k) \notin classes
         THEN Append(FragmentsBut(k - 1, classes), log[k].frag)
    ELSE FragmentsBut(k - 1, classes)
\* every evaluation of the render was of a node of the head and returned a fragment
FlatRender == \A k \in Evaluations : log[k].kind = "value" /\ log[k].depth = 1

\* C17: a set and a config return no fragment; after a set the key var holds the value
\* attribute as written (a value $y is the text $y, whatever y is bound to), after a
\* config every attribute key holds its attribute value; every other key of the context
\* is as it was, no key is removed; and the output of a render is the concatenation of
\* the fragments of its other directives
C17_SetConfigFrame ==
    /\ \A k \in StoreEvents :
           /\ log[k].kind = "value" /\ ~IsTrue(log[k].frag)
           /\ \A p \in Named(k) : Lookup(log[k].after, p[1]) = p[2]
           /\ Keys(log[k].after) = Keys(log[k].ctx) \cup Keys(Named(k))
           /\ \A key \in Keys(log[k].ctx) \ Keys(Named(k)) :
                  Lookup(log[k].after, key) = Lookup(log[k].ctx, key)
    /\ (phase = "done" /\ FlatRender) =>
           output = Join(FragmentsBut(Len(log), {"Set", "Config"})).s

\* set x to $y, config errmsg, echo x, against a context that binds y and k: the output
\* is the literal $y, and the context kept y and k beside the two keys stored
C17_Witness ==
    /\ phase = "done"
    /\ text = Flatten(<<SetD(<<"x">>, <<"$", "y">>), ConfigD(K_errmsg, <<"e">>),
                        EchoD(<<"x">>)>>)
    /\ output = <<"$", "y">>
    /\ Cardinality(StoreEvents) = 2
    /\ context = {<<<<"y">>, Str(<<"0">>)>>, <<<<"k">>, Str(<<"9">>)>>,
                  <<<<"x">>, Str(<<"$", "y">>)>>, <<K_errmsg, Str(<<"e">>)>>}

(***************************************************************************)
(* Stray end tags                                                          *)
(***************************************************************************)
\* the children of the head made from an end tag of the given classes: the token reached
\* the head with no scope open for it to close
Strays(classes) == {n \in 2..Len(nodes) : IsChild(1, n) /\ nodes[n].cls \in classes}
\* no token among the tokens i..j makes a node that opens a scope
NoOpener(i, j) == \A u \in i..j : end_tags(token_factory(TokenName(u))) = {}
\* node n has no children, and its evaluations return the empty text and leave the
\* context as it was
InertLeaf(n) ==
    /\ nodes[n].children = <<>> /\ nodes[n].else_tokens = <<>>
    /\ \A k \in Events :
           log[k].n = n =>
               /\ log[k].after = log[k].ctx /\ log[k].writes = {}
               /\ log[k].op = "evaluate" => log[k].kind = "call" /\ log[k].toks = <<>>
               /\ log[k].op = "return" => log[k].frag = Str(<<>>)
\* every token after the one node n was made from, no opening token after it in between,
\* that has a node is a child of the head
RootContinues(n) ==
    \A t \in Tokens :
        (t > nodes[n].tok /\ NoOpener(nodes[n].tok + 1, t) /\ HasNode(t)) =>
            IsChild(1, NodeOf(t))
\* every evaluation of the render returned a fragment, but for those of the stray nodes
LeafRender ==
    \A k \in Evaluations : log[k].kind = "value" \/ Cls(k) \in {"Else", "Endif", "Endblock"}
\* the evaluations of evaluations-with-fragment follow the order of the tokens
InTokenOrder ==
    \A k, j \in Evaluations :
        (k < j /\ log[k].kind = "value" /\ log[j].kind = "value") =>
            nodes[log[k].n].tok < nodes[log[j].n].tok

\* C18, as stated: an ENDIF, ENDBLOCK or ELSE that reaches the head is appended to it
\* as a leaf that gets no children, returns the empty text and leaves the context as it
\* was, and the tokens after it are appended to the head
C18_StrayIsLeaf ==
    \A n \in Strays({"Endif", "Endblock", "Else"}) : InertLeaf(n) /\ RootContinues(n)

\* C18, amended: that holds of ENDIF and ENDBLOCK.  An ELSE that reaches the head is
\* appended to it and opens a scope: no token after it is appended to the head before
\* an ENDIF, its evaluation evaluates its children and changes nothing itself.  In both
\* cases a render that returns has evaluated every text, echo and set once, in the order
\* of their tokens, and its output is the concatenation of their fragments
C18_StrayElseIsScope ==
    /\ \A n \in Strays({"Endif", "Endblock"}) : InertLeaf(n) /\ RootContinues(n)
    /\ \A n \in Strays({"Else"}) :
           /\ \A t \in Tokens :
                  (/\ t > nodes[n].tok /\ HasNode(t)
                   /\ \A u \in nodes[n].tok..t : TokenName(u) # T_ENDIF) =>
                      ~IsChild(1, NodeOf(t))
           /\ \A k \in Evaluations :
                  log[k].n = n =>
                      /\ log[k].kind = "call" /\ log[k].toks = nodes[n].children
                      /\ log[k].after = log[k].ctx /\ log[k].writes = {}
    /\ (phase = "done" /\ LeafRender) =>
           /\ InTokenOrder
           /\ \A n \in 2..Len(nodes) :
                  Cardinality({k \in Evaluations : log[k].n = n}) = 1
           /\ output = Join(FragmentsBut(Len(log), {"Else", "Endif", "Endblock"})).s

\* endif, else, 1: the endif is a leaf of the head, the else a child of the head that
\* holds the text, and the render returned 1
C18_Witness ==
    /\ phase = "done"
    /\ text = Flatten(<<EndifD, ElseD, <<"1">>>>)
    /\ nodes[1].children = <<2, 3>>
    /\ nodes[2].cls = "Endif" /\ nodes[3].cls = "Else"
    /\ nodes[3].children = <<4>>
    /\ output = <<"1">>

====
